---- MODULE Spec2Model ----
(***************************************************************************)
(* Model of the MIA planning loop (ai_adapter/planner/self_loop.py), its   *)
(* Memory (ai_adapter/core/memory.py) and its observer.                    *)
(*                                                                         *)
(* Encoding of Python values:                                              *)
(*   - a str is a sequence of one-character strings ("text");              *)
(*   - a value that is not a str is a one-element sequence holding a tag   *)
(*     that is no character (NonStr, None);                                *)
(*   - a dict is a function from key strings to values; an object that is  *)
(*     not a dict is a function whose only key is a "#..." tag;            *)
(*   - intent names and plugin ids are only compared, they stay strings.   *)
(***************************************************************************)
EXTENDS Integers, Sequences, FiniteSets, TLC

VARIABLES
    goal,             \* Planner.run argument
    allowed_intents,  \* Planner.allowed_intents
    max_steps,        \* Planner.max_steps
    step,             \* loop variable of Planner.run (0 before the loop)
    queries,          \* number of engine.parse calls made by this run
    pc,               \* position inside Planner.run / the driver of a pure function
    oracle,           \* how the last engine.parse call ended
    data,             \* what safe_async_run(self._ask(...)) gave back
    prompt,           \* the prompt of the last oracle query
    intent,           \* local intent after the guards
    params,           \* local params after path normalisation
    observation,      \* local observation (last Observation)
    seen_actions,     \* local seen_actions of Planner.run
    mem_state,        \* Memory.state
    mem_buf,          \* Memory.buf
    outcome,          \* which exit of Planner.run was taken
    commands,         \* the item list last handed to _execute_and_observe
    results,          \* what _capture_shell/_capture_plugin_call returned per item
    call,             \* last Memory / edit_file operation with its arguments and return value
    confirm,          \* Planner.confirm (Executor.confirm)
    behaviours,       \* what each item run in the last step did (process / callable)
    asked,            \* the approvals requested with input() in the last step, with the replies
    log,              \* the [GUARD] and exit lines printed since the last oracle query
    file              \* the text of the file edit_file works on

vars == <<goal, allowed_intents, max_steps, step, queries, pc, oracle, data, prompt, intent,
          params, observation, seen_actions, mem_state, mem_buf, outcome, commands,
          results, call, confirm, behaviours, asked, log, file>>

-----------------------------------------------------------------------------
(* Bounds of the model *)

MaxStepsBound == 3
MaxItems == 2

\* _fmt_history(mem, max_lines=12)
max_lines == 12
MaxCalls == 3

-----------------------------------------------------------------------------
(* Text helpers *)

None == <<"#None">>
NonStr == <<"#int">>
NoIntent == "#None"
EmptyDict == [k \in {} |-> <<>>]
NotADict == ("#nondict" :> TRUE)
ParamsList == ("#list" :> <<"x">>)
\* None where a mapping is expected
NoParams == ("#None" :> TRUE)

Whitespace == {" ", "\n", "\t"}

IsStr(v) == \A i \in DOMAIN v : v[i] \notin {"#None", "#int"}

IsDict(d) == \A k \in DOMAIN d : k \notin {"#nondict", "#list", "#None"}

Truthy(v) == v # None /\ v # <<>>

get(d, key, default) == IF key \in DOMAIN d THEN d[key] ELSE default

Take(s, n) == SubSeq(s, 1, IF Len(s) < n THEN Len(s) ELSE n)

Drop(s, n) == SubSeq(s, n + 1, Len(s))

startswith(s, w) == Len(s) >= Len(w) /\ SubSeq(s, 1, Len(w)) = w

endswith(s, w) == Len(s) >= Len(w) /\ SubSeq(s, Len(s) - Len(w) + 1, Len(s)) = w

contains(s, w) == \E i \in 0..(Len(s) - Len(w)) : SubSeq(s, i + 1, i + Len(w)) = w

Upper == <<"A","B","C","D","E","F","G","H","I","J","K","L","M",
           "N","O","P","Q","R","S","T","U","V","W","X","Y","Z">>
Lowercase == <<"a","b","c","d","e","f","g","h","i","j","k","l","m",
               "n","o","p","q","r","s","t","u","v","w","x","y","z">>

lower(s) == [i \in DOMAIN s |->
               IF \E j \in DOMAIN Upper : Upper[j] = s[i]
               THEN Lowercase[CHOOSE j \in DOMAIN Upper : Upper[j] = s[i]]
               ELSE s[i]]

RECURSIVE lstrip(_)
lstrip(s) == IF s # <<>> /\ Head(s) \in Whitespace THEN lstrip(Tail(s)) ELSE s

RECURSIVE rstrip(_)
rstrip(s) == IF s # <<>> /\ s[Len(s)] \in Whitespace
             THEN rstrip(SubSeq(s, 1, Len(s) - 1)) ELSE s

strip(s) == rstrip(lstrip(s))

RECURSIVE rstrip_sep(_)
rstrip_sep(s) == IF s # <<>> /\ s[Len(s)] = "/"
                 THEN rstrip_sep(SubSeq(s, 1, Len(s) - 1)) ELSE s

RECURSIVE join_lines(_)
join_lines(parts) ==
    IF parts = <<>> THEN <<>>
    ELSE IF Len(parts) = 1 THEN parts[1]
    ELSE parts[1] \o <<"\n">> \o join_lines(Tail(parts))

Max(S) == CHOOSE x \in S : \A y \in S : y <= x

Min(S) == CHOOSE x \in S : \A y \in S : x <= y

\* str.splitlines()
RECURSIVE splitlines(_)
splitlines(t) ==
    IF t = <<>> THEN <<>>
    ELSE IF \E i \in DOMAIN t : t[i] = "\n"
    THEN LET n == Min({i \in DOMAIN t : t[i] = "\n"})
         IN <<SubSeq(t, 1, n - 1)>> \o splitlines(Drop(t, n))
    ELSE <<t>>

\* str.split("\n"): the segments between the newlines
RECURSIVE segments(_)
segments(t) ==
    IF \E i \in DOMAIN t : t[i] = "\n"
    THEN LET n == Min({i \in DOMAIN t : t[i] = "\n"})
         IN <<SubSeq(t, 1, n - 1)>> \o segments(Drop(t, n))
    ELSE <<t>>

RECURSIVE count(_, _)
count(seq, x) == IF seq = <<>> THEN 0
                 ELSE (IF Head(seq) = x THEN 1 ELSE 0) + count(Tail(seq), x)

-----------------------------------------------------------------------------
(* os.path as used by Memory.set and Planner.run *)

HOME == <<"/","h">>

find_sep(path) == IF \E i \in 2..Len(path) : path[i] = "/"
                  THEN CHOOSE i \in 2..Len(path) :
                         path[i] = "/" /\ \A j \in 2..(i - 1) : path[j] # "/"
                  ELSE Len(path) + 1

expanduser(path) ==
    IF ~startswith(path, <<"~">>) THEN path
    ELSE LET i == find_sep(path)
         IN IF i = 2
            THEN LET res == rstrip_sep(HOME) \o Drop(path, i - 1)
                 IN IF res = <<>> THEN <<"/">> ELSE res
            ELSE path  \* "~name": no such user, the path comes back unchanged

path_join(a, b) ==
    IF startswith(b, <<"/">>) THEN b
    ELSE IF a = <<>> \/ endswith(a, <<"/">>) THEN a \o b
    ELSE a \o <<"/">> \o b

-----------------------------------------------------------------------------
(* Memory *)

maxlen == 20

\* a full deque that turns the new entry away instead of evicting the oldest
deque_append_keep_oldest(buf, x, n) ==
    IF Len(buf) >= n THEN buf ELSE Append(buf, x)

\* deque(maxlen=n).append(x)
deque_append(buf, x, n) ==
    IF n = 0 THEN <<>>
    ELSE IF Len(buf) >= n THEN Append(Tail(buf), x) ELSE Append(buf, x)

\* Memory.add on a Memory built with the default capacity
Memory_add(buf, text) == deque_append(buf, text, maxlen)

\* the value stored as given, without expanding "~"
Memory_set_literal(state, key, value) ==
    [k \in DOMAIN state \cup {key} |-> IF k = key THEN value ELSE state[k]]

Memory_set(state, key, value) ==
    [k \in DOMAIN state \cup {key} |-> IF k = key THEN expanduser(value) ELSE state[k]]

Memory_get(state, key, default) == get(state, key, default)

-----------------------------------------------------------------------------
(* Goal heuristics *)

CreateWords == {
    <<"c","r","e","a","t","e">>,
    <<"m","a","k","e">>,
    <<"w","r","i","t","e"," ","a"," ","f","i","l","e">>,
    <<"w","r","i","t","e"," ","f","i","l","e">>,
    <<"p","u","t"," ","a"," ","f","i","l","e">>,
    <<"a","d","d"," ","a"," ","f","i","l","e">>,
    <<"n","e","w"," ","f","o","l","d","e","r">>,
    <<"n","e","w"," ","d","i","r","e","c","t","o","r","y">>,
    <<"c","r","e","a","t","e"," ","f","o","l","d","e","r">> }

EditWords == {
    <<"e","d","i","t">>,
    <<"m","o","d","i","f","y">>,
    <<"c","h","a","n","g","e">>,
    <<"c","o","n","v","e","r","t">>,
    <<"u","p","d","a","t","e">>,
    <<"r","e","f","a","c","t","o","r">> }

needs_create(g) == \E w \in CreateWords : contains(lower(g), w)

needs_edit(g) == \E w \in EditWords : contains(lower(g), w)

-----------------------------------------------------------------------------
(* Observation and the observer *)

Observation(c, o, e) == [code |-> c, output |-> o, error |-> e]

UnknownCommandType == <<"U","n","k","n","o","w","n">>

item_obs(item, r) ==
    IF item.kind \in {"shell", "plugin"} THEN r
    ELSE Observation(1, <<>>, UnknownCommandType)

stripped(texts) == [i \in DOMAIN texts |-> strip(texts[i])]

nonempty(texts) == SelectSeq(texts, LAMBDA p : p # <<>>)

\* first failure wins instead of the last item
code_first_failure(obs) ==
    IF \E i \in DOMAIN obs : obs[i].code # 0
    THEN obs[CHOOSE i \in DOMAIN obs :
               obs[i].code # 0 /\ \A j \in 1..(i - 1) : obs[j].code = 0].code
    ELSE 0

code_final(obs) == IF obs = <<>> THEN 0 ELSE obs[Len(obs)].code

execute_and_observe(cmds, res) ==
    LET obs == [i \in DOMAIN cmds |-> item_obs(cmds[i], res[i])]
        out_parts == stripped(nonempty([i \in DOMAIN obs |-> obs[i].output]))
        err_parts == stripped(nonempty([i \in DOMAIN obs |-> obs[i].error]))
    IN Observation(code_final(obs),
                   join_lines(nonempty(out_parts)),
                   join_lines(nonempty(err_parts)))

-----------------------------------------------------------------------------
(* Intent registry (Router) and action building *)

SAFE_INTENTS_DEFAULT == {"create_folder", "list_home", "list_dir", "create_file",
                         "write_file", "edit_file", "read_file", "file_exists",
                         "ping_host"}

MAX_STEPS_DEFAULT == 20

Lit(text) == [lit |-> text]
Var(name) == [var |-> name]

\* the functions the plugin modules define
PluginFunctions == {"files.create_file", "files.write_file", "files.edit_file",
                    "files.read_file", "files.file_exists", "files.create_folder",
                    "files.list_dir", "system.top20", "system.uptime",
                    "system.sensors", "planner_wrapper.run"}

\* Router.templates after loading the intent documents of a directory that
\* has no document for file_exists
templates ==
    [i \in {"create_folder", "create_file", "write_file", "edit_file", "read_file",
            "list_dir", "list_home", "ping_host", "uptime", "noop",
            "ghost"} |->
       CASE i = "create_folder" -> [plugin |-> "files.create_folder"]
         [] i = "create_file"   -> [plugin |-> "files.create_file"]
         [] i = "write_file"    -> [plugin |-> "files.write_file"]
         [] i = "edit_file"     -> [plugin |-> "files.edit_file"]
         [] i = "read_file"     -> [plugin |-> "files.read_file"]
         [] i = "list_dir"      -> [shell |-> << <<Lit(<<"l","s"," ">>), Var("path")>> >>]
         [] i = "list_home"     -> [shell |-> << <<Lit(<<"l","s"," ","~">>)>> >>]
         [] i = "ping_host"     -> [shell |-> << <<Lit(<<"p","i","n","g"," ">>), Var("host")>> >>]
         [] i = "uptime"        -> [plugin |-> "system.uptime"]
         [] i = "noop"          -> [description |-> <<"n","o","o","p">>]
         [] i = "ghost"         -> [plugin |-> "nomod.fn"]]

Router_has(name) == name \in DOMAIN templates

KeyError == [raised |-> "KeyError"]

\* a registry that answers an unknown name with the spec of another intent
Router_get_fallback(name) ==
    IF name \in DOMAIN templates THEN templates[name] ELSE templates["uptime"]

\* Router.get, lines 14-17: the spec, or KeyError for a name it does not have
Router_get(name) == IF name \in DOMAIN templates THEN templates[name] ELSE KeyError

\* str(value) as the template engine prints it
to_text(v) == IF IsStr(v) THEN v ELSE <<"5">>

RECURSIVE render(_, _)
render(template, p) ==
    IF template = <<>> THEN <<>>
    ELSE LET tok == Head(template)
         IN (IF "lit" \in DOMAIN tok THEN tok.lit
             ELSE IF tok.var \in DOMAIN p THEN to_text(p[tok.var]) ELSE <<>>)
            \o render(Tail(template), p)

ShellItem(text) == [kind |-> "shell", cmd |-> text]
PluginItem(id, p) == [kind |-> "plugin", plugin |-> id, params |-> p]
UnknownItem == [kind |-> "unknown"]

\* params or {}
\* `params or {}`: None and the empty mapping are false
params_or_empty(p) == IF p = NoParams \/ DOMAIN p = {} THEN EmptyDict ELSE p

\* render(**x) needs a mapping
render_raises(p) == ~IsDict(params_or_empty(p))

\* the exception _build_cmds raises, or "none"
build_error(spec, p) ==
    IF "shell" \in DOMAIN spec
    THEN (IF spec.shell # <<>> /\ render_raises(p) THEN "TypeError" ELSE "none")
    ELSE IF "plugin" \in DOMAIN spec THEN "none"
    ELSE "ValueError"

build_raises(spec, p) == build_error(spec, p) # "none"

\* a builder that renders the parameters of a plugin reference into text
build_cmds_rendered(spec, p) ==
    IF "shell" \in DOMAIN spec
    THEN [i \in DOMAIN spec.shell |-> ShellItem(render(spec.shell[i], params_or_empty(p)))]
    ELSE <<PluginItem(spec.plugin,
                      IF IsDict(p) THEN [k \in DOMAIN p |-> to_text(p[k])] ELSE p)>>

\* lines 146-155: the items _build_cmds returns when it does not raise
build_cmds(spec, p) ==
    IF "shell" \in DOMAIN spec
    THEN [i \in DOMAIN spec.shell |-> ShellItem(render(spec.shell[i], params_or_empty(p)))]
    ELSE <<PluginItem(spec.plugin, p)>>

\* _capture_plugin_call resolves the callable outside its try block
capture_raises(item) == item.kind = "plugin" /\ item.plugin \notin PluginFunctions

exec_raises(cmds) == \E i \in DOMAIN cmds : capture_raises(cmds[i])

-----------------------------------------------------------------------------
(* Inputs of the planner: goals, whitelists, oracle answers, item outcomes *)

Goals == {
    <<"c","r","e","a","t","e"," ","a"," ","f","o","l","d","e","r"," ","c","a","l","l","e","d"," ","n","o","t","e","s">>,
    <<"c","r","e","a","t","e"," ","a"," ","f","i","l","e">>,
    <<"E","d","i","t"," ","n","o","t","e","s">>,
    <<"l","i","s","t"," ","h","o","m","e">> }

\* a whitelist given with --allow
AllowOverride == {"read_file", "list_dir", "noop", "ghost", "nosuch"}

AllowedChoices == {SAFE_INTENTS_DEFAULT, AllowOverride}

PathHome == <<"~","/","n","o","t","e","s">>
PathRel == <<".","/","a">>
SomeText == <<"t">>
EngineErrorText == <<"e","n","g","i","n","e"," ","e","r","r","o","r">>

PathDict(v) == ("path" :> v)
EditDict(v) == ("path" :> v) @@ ("new_content" :> SomeText)

Pairs == { <<"create_folder", PathDict(PathHome)>>,
           <<"read_file", PathDict(PathRel)>>,
           <<"edit_file", EditDict(PathRel)>>,
           <<"list_dir", PathDict(PathHome)>>,
           <<"read_file", EmptyDict>>,
           <<NoIntent, EmptyDict>>,
           <<"uptime", EmptyDict>>,
           <<"nosuch", EmptyDict>>,
           <<"file_exists", PathDict(PathHome)>>,
           <<"noop", EmptyDict>>,
           <<"ghost", EmptyDict>>,
           <<"read_file", PathDict(NonStr)>>,
           <<"create_folder", PathDict(NonStr)>>,
           <<"list_dir", ParamsList>>,
           <<"edit_file", ParamsList>> }

WellFormed(i, p, s) ==
    [thought |-> SomeText, intent |-> i, params |-> p, stop |-> s, report |-> SomeText]

FieldNames == {"thought", "intent", "params", "stop", "report"}

IsWellFormed(d) == IsDict(d) /\ DOMAIN d = FieldNames

Responses ==
    {WellFormed(pr[1], pr[2], s) : pr \in Pairs, s \in BOOLEAN}
    \cup {[intent |-> "create_folder", params |-> PathDict(PathHome)],
          [intent |-> "read_file", params |-> PathDict(PathRel), stop |-> FALSE],
          [intent |-> "edit_file", report |-> SomeText],
          [stop |-> TRUE],
          EmptyDict}

\* what engine.parse can do: return a dict, return something else, raise
\* (a timeout included), or leave asyncio.run with "Event loop is closed"
EngineOutcomes ==
    {[how |-> "returned", value |-> d] : d \in Responses \cup {NotADict}}
    \cup {[how |-> "raised", value |-> NotADict],
          [how |-> "loop_closed", value |-> NotADict]}

\* the user interrupt (KeyboardInterrupt) that can arrive while the engine is
\* awaited or while an item runs
InterruptOutcome == [how |-> "interrupted", value |-> NotADict]

\* an `except Exception` clause that would also catch the user interrupt
except_exception_catches_all(how) == TRUE

\* `except Exception` (lines 119, 138, 358): KeyboardInterrupt is no Exception
except_exception_catches(how) == how # "interrupted"

\* line 358: what _ask's except clause catches becomes a stop answer
ask(e) ==
    IF e.how \in {"raised", "interrupted"} THEN [stop |-> TRUE, report |-> EngineErrorText]
    ELSE e.value

safe_async_run(e) == IF e.how = "loop_closed" THEN NotADict ELSE ask(e)

\* what running one item does: a process that exits, a command that cannot be
\* started, a callable that returns a code, a callable that raises after it
\* printed something
Exited(c, o, e) == [how |-> "exited", code |-> c, out |-> o, err |-> e]
SpawnFailed(m) == [how |-> "spawn_failed", code |-> 0, out |-> <<>>, err |-> m]
Returned(c, o) == [how |-> "returned", code |-> c, out |-> o, err |-> <<>>]
Raised(o, m) == [how |-> "raised", code |-> 0, out |-> o, err |-> m]
Interrupted == [how |-> "interrupted", code |-> 0, out |-> <<>>, err |-> <<>>]

OkText == <<"o","k","\n">>
PrintedText == <<"p","\n">>
BoomText == <<"b","o","o","m">>
TypeErrorText == <<"T","y","p","e","E","r","r","o","r">>
TracebackText == <<"T","r","a","c","e","b","a","c","k","\n">>
\* an error text of max_lines lines
ManyLinesText == [i \in 1..(2 * max_lines - 1) |-> IF i % 2 = 1 THEN "e" ELSE "\n"]

ShellBehaviours == {Exited(0, OkText, <<>>), Exited(1, <<>>, BoomText), SpawnFailed(BoomText),
                    Exited(2, <<>>, ManyLinesText)}

PluginBehaviours == {Returned(0, OkText), Raised(PrintedText, BoomText)}

\* the parameters the plugin functions declare without a default
RequiredParams(f) ==
    CASE f = "files.write_file" -> {"path", "content"}
      [] f = "files.edit_file" -> {"path", "new_content"}
      [] f \in {"files.create_file", "files.read_file", "files.file_exists",
                "files.create_folder", "files.list_dir"} -> {"path"}
      [] f = "planner_wrapper.run" -> {"goal"}
      [] OTHER -> {}

\* the parameters they declare with a default
OptionalParams(f) ==
    CASE f = "files.create_file" -> {"content"}
      [] f = "files.write_file" -> {"mode"}
      [] f = "files.edit_file" -> {"start_marker", "end_marker", "keyword"}
      [] f = "planner_wrapper.run" -> {"steps"}
      [] OTHER -> {}

\* fn(**params) raises TypeError inside the try block when params is no mapping,
\* lacks a required parameter or names one the function does not have
call_raises(f, p) ==
    \/ ~IsDict(p)
    \/ ~(RequiredParams(f) \subseteq DOMAIN p)
    \/ ~(DOMAIN p \subseteq RequiredParams(f) \cup OptionalParams(f))

item_behaviours(item) ==
    IF item.kind = "shell" THEN ShellBehaviours
    ELSE IF call_raises(item.plugin, item.params) THEN {Raised(<<>>, TypeErrorText)}
    ELSE PluginBehaviours

\* the item's behaviours in a session the user can interrupt
interruptible_behaviours(item) == item_behaviours(item) \cup {Interrupted}

\* the first item whose exception the capture functions let through, or 0
RECURSIVE first_uncaught(_, _)
first_uncaught(beh, k) ==
    IF k > Len(beh) THEN 0
    ELSE IF ~except_exception_catches(beh[k].how) THEN k
    ELSE first_uncaught(beh, k + 1)

\* an exception of the callable returned as if the call had succeeded
capture_plugin_call_swallowed(b) == Observation(b.code, b.out, <<>>)

capture_plugin_call(b) ==
    IF b.how # "returned"
    THEN Observation(1, b.out, b.err \o <<"\n">> \o TracebackText)
    ELSE Observation(b.code, b.out, <<>>)

capture_shell(b) ==
    IF b.how # "exited" THEN Observation(1, <<>>, b.err)
    ELSE Observation(b.code, b.out, b.err)

capture(item, b) ==
    IF item.kind = "shell" THEN capture_shell(b) ELSE capture_plugin_call(b)

-----------------------------------------------------------------------------
(* Planner.run *)

MUTATION_INTENTS == {"create_file", "write_file", "edit_file", "create_folder"}
EDIT_INTENTS == {"edit_file", "write_file"}
FILE_INTENTS == {"create_file", "write_file", "edit_file", "read_file", "file_exists"}

StartText == <<"(","s","t","a","r","t",")">>
NoneText == <<"(","n","o","n","e",")">>

\* a mutation set that forgets folder creation
did_create_files_only(seen) == \E i \in DOMAIN seen : seen[i] \in {"create_file", "write_file", "edit_file"}

did_create(seen) == \E i \in DOMAIN seen : seen[i] \in MUTATION_INTENTS
did_edit(seen) == \E i \in DOMAIN seen : seen[i] \in EDIT_INTENTS

\* the answer's intent taken as it is
response_intent_unguarded(d, seen) == get(d, "intent", NoIntent)

\* lines 272-277: a read_file answered again is replaced by edit_file
response_intent(d, seen) ==
    LET i == get(d, "intent", NoIntent)
    IN IF i = "read_file" /\ count(seen, "read_file") >= 1 THEN "edit_file" ELSE i

response_params(d) ==
    LET p == get(d, "params", EmptyDict)
    IN IF DOMAIN p = {} THEN EmptyDict ELSE p

\* a stop honoured only when the goal asks for no edit and no creation
stop_decision_goal_only(d, g, seen) ==
    get(d, "stop", FALSE) /\ ~needs_edit(g) /\ ~needs_create(g)

\* lines 280-300
stop_decision(d, g, seen) ==
    IF get(d, "stop", FALSE)
    THEN IF needs_edit(g) /\ ~did_edit(seen) THEN FALSE
         ELSE IF needs_create(g) /\ ~did_create(seen) THEN FALSE
         ELSE TRUE
    ELSE FALSE

\* a check against the default whitelist instead of the session's
intent_allowed_default(i, allowed) == i \in SAFE_INTENTS_DEFAULT

intent_allowed(i, allowed) == i \in allowed

hints_raise(i, p) ==
    /\ i \in {"create_folder"} \cup FILE_INTENTS
    /\ "path" \in DOMAIN p
    /\ ~IsStr(p["path"])

\* a step that hands the path on as the oracle gave it
normalize_params_asis(i, p, state) == p

\* lines 316-320
normalize_params(i, p, state) ==
    IF /\ i \in FILE_INTENTS
       /\ "path" \in DOMAIN p
       /\ startswith(p["path"], <<".","/">>)
       /\ Truthy(Memory_get(state, "last_folder", None))
    THEN [p EXCEPT !["path"] =
             path_join(Memory_get(state, "last_folder", None), Drop(p["path"], 2))]
    ELSE p

update_hints(i, p, state) ==
    IF i \in {"create_folder"} /\ "path" \in DOMAIN p
    THEN Memory_set(state, "last_folder", p["path"])
    ELSE IF i \in FILE_INTENTS /\ "path" \in DOMAIN p
    THEN Memory_set(state, "last_file", normalize_params(i, p, state)["path"])
    ELSE state

observation_text(obs) ==
    Take(IF obs.output # <<>> THEN obs.output
         ELSE IF obs.error # <<>> THEN obs.error ELSE NoneText, 2000)

RanEntry(i, p, c) == [tag |-> "MIA", intent |-> i, params |-> p, code |-> c]
ObsEntry(text) == [tag |-> "OBS", text |-> Take(text, 500)]
ErrEntry(text) == [tag |-> "ERR", text |-> Take(text, 500)]

record_observation(buf, i, p, obs) ==
    LET b1 == Memory_add(buf, RanEntry(i, p, obs.code))
        b2 == IF obs.output # <<>> THEN Memory_add(b1, ObsEntry(obs.output)) ELSE b1
    IN IF obs.error # <<>> THEN Memory_add(b2, ErrEntry(obs.error)) ELSE b2

\* the lines one entry of Memory.buf contributes to Memory.context(): the
\* "MIA: ran ..." entry is one line, an "OBS: "/"ERR: " entry has the lines of
\* its text, the first of them behind the tag
newlines_of(t) == {i \in DOMAIN t : t[i] = "\n"}

\* the position of the k-th newline of t
nth_newline(t, k) ==
    CHOOSE i \in newlines_of(t) : Cardinality({j \in newlines_of(t) : j < i}) = k - 1

\* t.split("\n")[k - 1]
nth_segment(t, k) ==
    SubSeq(t,
           IF k = 1 THEN 1 ELSE nth_newline(t, k - 1) + 1,
           IF k > Cardinality(newlines_of(t)) THEN Len(t) ELSE nth_newline(t, k) - 1)

entry_lines(e) ==
    IF e.tag = "MIA" THEN <<e>>
    ELSE [k \in 1..(Cardinality(newlines_of(e.text)) + 1) |->
            [tag |-> IF k = 1 THEN e.tag ELSE "", text |-> nth_segment(e.text, k)]]

\* Memory.context().splitlines(): the entries joined with "\n"; splitlines
\* gives no empty last line for a text that ends with a newline
RECURSIVE context_from(_, _)
context_from(buf, k) ==
    IF k > Len(buf) THEN <<>>
    ELSE IF k = Len(buf)
    THEN (IF buf[k].tag # "MIA" /\ buf[k].text # <<>> /\ buf[k].text[Len(buf[k].text)] = "\n"
          THEN SubSeq(entry_lines(buf[k]), 1, Cardinality(newlines_of(buf[k].text)))
          ELSE entry_lines(buf[k]))
    ELSE entry_lines(buf[k]) \o context_from(buf, k + 1)

context_lines(buf) == context_from(buf, 1)

\* _fmt_history, lines 201-206: the last max_lines lines ("(none)" is the
\* empty sequence)
last_lines(ls, n) == SubSeq(ls, IF Len(ls) > n THEN Len(ls) - n + 1 ELSE 1, Len(ls))

\* a history that is never cut
fmt_history_all(buf) == context_lines(buf)

fmt_history(buf) == last_lines(context_lines(buf), max_lines)

\* a prompt that always shows the initial observation
compose_prompt_start(allowed, state, buf, obs, g) ==
    [allowed |-> allowed, symbolic |-> state, history |-> fmt_history(buf),
     observation |-> StartText, goal |-> g]

\* lines 257-263
compose_prompt(allowed, state, buf, obs, g) ==
    [allowed |-> allowed, symbolic |-> state, history |-> fmt_history(buf),
     observation |-> observation_text(obs), goal |-> g]

\* the lines of the log the model keeps
GuardReadLine == "[GUARD] Repeated read_file detected; forcing edit_file and stopping."
GuardEditLine == "[GUARD] Goal requires editing but no edit/write action executed yet; continuing."
GuardCreateLine == "[GUARD] Goal requires creating/writing a file but no create/write action executed yet; continuing."
InvalidJsonLine == "[PLANNER] Invalid planner JSON"
StopLine == "[STEP] stop=true"
NotAllowedLine == "[STEP] intent not allowed. Stopping."
UnknownIntentLine == "[STEP] Unknown intent"
FinishedLine == "[PLANNER] loop finished."

read_guard_fires(d, seen) ==
    get(d, "intent", NoIntent) = "read_file" /\ count(seen, "read_file") >= 1

\* what lines 275-311 print for the answer d
decide_lines(d, g, seen, allowed) ==
    (IF read_guard_fires(d, seen) THEN <<GuardReadLine>> ELSE <<>>)
    \o (IF get(d, "stop", FALSE)
        THEN IF needs_edit(g) /\ ~did_edit(seen) THEN <<GuardEditLine>>
             ELSE IF needs_create(g) /\ ~did_create(seen) THEN <<GuardCreateLine>>
             ELSE <<>>
        ELSE <<>>)
    \o (IF stop_decision(d, g, seen) THEN <<StopLine>>
        ELSE IF ~intent_allowed(response_intent(d, seen), allowed) THEN <<NotAllowedLine>>
        ELSE <<>>)

NoCall == [op |-> "none"]

Init ==
    /\ goal \in Goals
    /\ allowed_intents \in AllowedChoices
    /\ max_steps \in 0..MaxStepsBound
    /\ step = 0
    /\ queries = 0
    /\ pc = "ask"
    /\ oracle = "none"
    /\ data = EmptyDict
    /\ prompt = EmptyDict
    /\ intent = NoIntent
    /\ params = EmptyDict
    /\ observation = Observation(0, StartText, <<>>)
    /\ seen_actions = <<>>
    /\ mem_state = EmptyDict
    /\ mem_buf = <<>>
    /\ outcome = "RUNNING"
    /\ commands = <<>>
    /\ results = <<>>
    /\ call = NoCall
    /\ confirm \in BOOLEAN
    /\ behaviours = <<>>
    /\ asked = <<>>
    /\ log = <<>>
    /\ file = <<>>

\* a range that runs one iteration too many
loop_continues_inclusive(s, m) == s <= m

\* for step in range(1, self.max_steps + 1): is there another iteration after `s`
loop_continues(s, m) == s < m

Finish(o) ==
    /\ pc' = "done"
    /\ outcome' = o

\* lines 255-266: next iteration, compose the prompt, query the oracle
Ask ==
    /\ pc = "ask"
    /\ loop_continues(step, max_steps)
    /\ step' = step + 1
    /\ queries' = queries + 1
    /\ prompt' = compose_prompt(allowed_intents, mem_state, mem_buf, observation, goal)
    /\ \E e \in EngineOutcomes \cup {InterruptOutcome} :
         /\ oracle' = e.how
         /\ IF except_exception_catches(e.how)
            THEN /\ data' = safe_async_run(e)
                 /\ pc' = "decide"
                 /\ UNCHANGED outcome
            ELSE /\ Finish("INTERRUPTED")     \* lines 220-221
                 /\ UNCHANGED data
    /\ UNCHANGED <<goal, allowed_intents, max_steps, intent, params, observation,
                   seen_actions, mem_state, mem_buf, commands, results, call,
                   confirm, behaviours, asked, file>>
    /\ log' = <<>>

\* the for loop runs out of steps
LoopExhausted ==
    /\ pc = "ask"
    /\ ~loop_continues(step, max_steps)
    /\ Finish("STOPPED_BY_MAX_STEPS")
    /\ log' = Append(log, FinishedLine)
    /\ UNCHANGED <<goal, allowed_intents, max_steps, step, queries, oracle, data, prompt, intent,
                   params, observation, seen_actions, mem_state, mem_buf, commands,
                   results, call, confirm, behaviours, asked, file>>

\* lines 267-321: validate the answer, guards, whitelist, symbolic memory hints
Decide ==
    /\ pc = "decide"
    /\ IF ~IsDict(data)
       THEN /\ Finish("STOPPED_BY_ORACLE_ERROR")
            /\ log' = <<InvalidJsonLine, FinishedLine>>
            /\ UNCHANGED <<intent, params, mem_state>>
       ELSE LET i == response_intent(data, seen_actions)
                p == response_params(data)
                lines == decide_lines(data, goal, seen_actions, allowed_intents)
            IN IF stop_decision(data, goal, seen_actions)
               THEN /\ Finish("STOPPED_BY_MODEL")
                    /\ log' = lines \o <<FinishedLine>>
                    /\ intent' = i /\ params' = p
                    /\ UNCHANGED mem_state
               ELSE IF ~intent_allowed(i, allowed_intents)
               THEN /\ Finish("STOPPED_BY_DISALLOWED_INTENT")
                    /\ log' = lines \o <<FinishedLine>>
                    /\ intent' = i /\ params' = p
                    /\ UNCHANGED mem_state
               ELSE IF hints_raise(i, p)
               THEN /\ Finish("RAISED")
                    /\ log' = lines
                    /\ intent' = i /\ params' = p
                    /\ UNCHANGED mem_state
               ELSE /\ pc' = "act"
                    /\ log' = lines
                    /\ intent' = i
                    /\ params' = normalize_params(i, p, mem_state)
                    /\ mem_state' = update_hints(i, p, mem_state)
                    /\ UNCHANGED outcome
    /\ UNCHANGED <<goal, allowed_intents, max_steps, step, queries, oracle, data, prompt,
                   observation, seen_actions, mem_buf, commands, results, call,
                   confirm, behaviours, asked, file>>

\* lines 323-342: registry lookup, build, execute, record
Act ==
    /\ pc = "act"
    /\ IF Router_get(intent) = KeyError
       THEN /\ Finish("STOPPED_BY_UNKNOWN_INTENT")
            /\ log' = log \o <<UnknownIntentLine, FinishedLine>>
            /\ UNCHANGED <<observation, seen_actions, mem_buf, commands, results,
                           behaviours>>
       ELSE IF build_raises(Router_get(intent), params)
       THEN /\ Finish("RAISED")
            /\ UNCHANGED <<observation, seen_actions, mem_buf, commands, results,
                           behaviours, log>>
       ELSE LET cmds == build_cmds(Router_get(intent), params)
            IN IF exec_raises(cmds)
               THEN /\ Finish("RAISED")
                    /\ commands' = cmds
                    /\ UNCHANGED <<observation, seen_actions, mem_buf, results,
                                   behaviours, log>>
               ELSE \E beh \in [DOMAIN cmds -> ShellBehaviours \cup PluginBehaviours
                                                \cup {Raised(<<>>, TypeErrorText),
                                                      Interrupted}] :
                      LET res == [k \in DOMAIN cmds |-> capture(cmds[k], beh[k])]
                          u == first_uncaught(beh, 1)
                      IN /\ \A k \in DOMAIN cmds :
                               beh[k] \in interruptible_behaviours(cmds[k])
                         /\ commands' = cmds
                         /\ IF u = 0
                            THEN /\ behaviours' = beh
                                 /\ results' = res
                                 /\ observation' = execute_and_observe(cmds, res)
                                 /\ seen_actions' = Append(seen_actions, intent)
                                 /\ mem_buf' = record_observation(mem_buf, intent, params,
                                                      execute_and_observe(cmds, res))
                                 /\ pc' = "ask"
                                 /\ UNCHANGED <<outcome, log>>
                            ELSE /\ behaviours' = SubSeq(beh, 1, u)
                                 /\ results' = SubSeq(res, 1, u - 1)
                                 /\ Finish("INTERRUPTED")
                                 /\ UNCHANGED <<observation, seen_actions, mem_buf, log>>
    /\ UNCHANGED <<goal, allowed_intents, max_steps, step, queries, oracle, data, prompt, intent,
                   params, mem_state, call, confirm, asked, file>>

Next == Ask \/ LoopExhausted \/ Decide \/ Act

Spec == Init /\ [][Next]_vars

\* Planner.run is one sequential thread: while it has a next statement it
\* executes it (every engine call, process and callable is taken to return)
MaxStepsLive == 2

\* the runs without confirm and with a step budget up to MaxStepsLive
InitLive == Init /\ ~confirm /\ max_steps <= MaxStepsLive

SpecLive == InitLive /\ [][Next]_vars /\ WF_vars(Next)

-----------------------------------------------------------------------------
(* Properties of Planner.run *)

IsRan(e) == e.tag = "MIA"

\* the entries Planner.run records for the actions it executed, in order
Executed == SelectSeq(mem_buf, IsRan)

\* the latest oracle query failed: the call raised, or gave back no object
OracleFailed == oracle \in {"raised", "loop_closed"} \/ (oracle = "returned" /\ ~IsDict(data))

\* the run ended inside the step that received `data` (not by running out of steps)
EndedInStep == pc = "done" /\ outcome # "STOPPED_BY_MAX_STEPS"

\* C1: every intent that is dispatched (resolved, built, executed) is in the
\* session's allowed_intents, the edit_file substituted by the read-loop guard
\* included.
C1_ExecutedIntentsAllowed ==
    /\ \A k \in DOMAIN seen_actions : seen_actions[k] \in allowed_intents
    /\ \A k \in DOMAIN Executed : Executed[k].intent \in allowed_intents
    /\ pc = "act" => intent \in allowed_intents

\* a repeated read_file was replaced by edit_file and that edit_file was executed
C1_Witness ==
    /\ pc = "ask" /\ step >= 2 /\ Len(seen_actions) = step
    /\ oracle = "returned" /\ get(data, "intent", NoIntent) = "read_file"
    /\ seen_actions[step] = "edit_file"
    /\ "read_file" \in {seen_actions[k] : k \in 1..(step - 1)}

\* C2: seen_actions never holds more than max_steps entries and the oracle is
\* queried at most max_steps times.
C2_StepBudget ==
    /\ Len(seen_actions) <= max_steps
    /\ queries <= max_steps

\* a run that used its whole budget
C2_Witness ==
    /\ max_steps >= 2
    /\ outcome = "STOPPED_BY_MAX_STEPS"
    /\ Len(seen_actions) = max_steps
    /\ queries = max_steps

\* C3: an (intent, params) tuple that was executed with status 0 is not executed
\* again in the session (its execution count stays at 1).
C3_SucceededTupleRunsOnce ==
    \A a \in DOMAIN Executed : \A b \in DOMAIN Executed :
        (a < b /\ Executed[a].code = 0 /\ Executed[a].intent = Executed[b].intent)
            => Executed[a].params # Executed[b].params

CreateAFile == <<"c","r","e","a","t","e"," ","a"," ","f","i","l","e">>

\* C4: with a goal containing "create a file" and no create/write action recorded,
\* an answer with stop=true does not end the loop in that step, whatever its
\* other fields are.
C4_StopSuppressed ==
    ( /\ contains(lower(goal), CreateAFile)
      /\ ~did_create(seen_actions)
      /\ oracle = "returned" /\ IsDict(data) /\ get(data, "stop", FALSE) )
    => ~EndedInStep

ExpandedNotes == <<"/","h","/","n","o","t","e","s">>

NotesGoal == <<"c","r","e","a","t","e"," ","a"," ","f","o","l","d","e","r"," ","c","a","l","l","e","d"," ","n","o","t","e","s">>

\* the end-to-end scenario: the step-1 answer made create_folder run with success
\* (the create_folder answers that run carry the path "~/notes"), and step 2 has
\* handled the answer {stop: true}
C7_Scenario ==
    /\ goal = NotesGoal
    /\ allowed_intents = SAFE_INTENTS_DEFAULT
    /\ step = 2 /\ pc # "decide"
    /\ oracle = "returned" /\ data = [stop |-> TRUE]
    /\ Len(seen_actions) >= 1 /\ seen_actions[1] = "create_folder"
    /\ Executed[1].code = 0

\* C7 as stated: one plugin invocation whose path argument is the expanded path,
\* final state STOPPED_BY_MODEL, last_folder the expanded path.
C7_EndToEndExpandedArgument ==
    C7_Scenario =>
        /\ pc = "done" /\ outcome = "STOPPED_BY_MODEL"
        /\ Len(Executed) = 1
        /\ commands = <<PluginItem("files.create_folder", PathDict(ExpandedNotes))>>
        /\ Memory_get(mem_state, "last_folder", None) = ExpandedNotes

\* C7 amended: one plugin invocation that receives the path as the oracle gave
\* it ("~/notes"), final state STOPPED_BY_MODEL, last_folder the expanded path.
C7_EndToEndRawArgument ==
    C7_Scenario =>
        /\ pc = "done" /\ outcome = "STOPPED_BY_MODEL"
        /\ Len(Executed) = 1
        /\ Executed[1].params = PathDict(PathHome)
        /\ commands = <<PluginItem("files.create_folder", PathDict(PathHome))>>
        /\ Memory_get(mem_state, "last_folder", None) = ExpandedNotes

C7_Witness == C7_Scenario /\ pc = "done" /\ outcome = "STOPPED_BY_MODEL"

\* C8: Planner.run never raises, it always ends in a terminal state it reports.
C8_NeverRaises == outcome # "RAISED"

\* C9: a failed oracle query ends the loop as STOPPED_BY_ORACLE_ERROR in that
\* step, with no action executed in the step; it does not pass through the
\* premature-stop guard and is not reported as a model stop or a disallowed intent.
C9_OracleFailureIsOracleError ==
    (pc \in {"act", "ask", "done"} /\ OracleFailed)
    => /\ pc = "done"
       /\ outcome = "STOPPED_BY_ORACLE_ERROR"
       /\ Len(seen_actions) = step - 1

\* C10: an answer that is an object but lacks one of thought, intent, params,
\* stop, report is rejected: the loop ends in that step and no action taken from
\* that answer is executed.
C10_MalformedRejected ==
    (pc \in {"ask", "done"} /\ oracle = "returned" /\ IsDict(data)
       /\ ~IsWellFormed(data))
    => /\ pc = "done"
       /\ Len(seen_actions) = step - 1

\* item k of the last executed step was a plugin call whose callable raised
PluginRaised(k) == commands[k].kind = "plugin" /\ behaviours[k].how = "raised"

\* C11: an exception raised by a plugin callable becomes that item's result with
\* status code 1, the message and trace as error and the text printed before the
\* failure as output; the step is completed and recorded like any other (every
\* item has a result, the loop is still running), and the only ways the run
\* itself raises are the symbolic hints, the builder and the plugin lookup.
C11_PluginExceptionCaught ==
    /\ pc # "done" =>
          /\ DOMAIN behaviours = DOMAIN commands /\ DOMAIN results = DOMAIN commands
          /\ \A k \in DOMAIN behaviours : PluginRaised(k) =>
                /\ results[k] = Observation(1, behaviours[k].out,
                                            behaviours[k].err \o <<"\n">> \o TracebackText)
                /\ outcome = "RUNNING"
                /\ Len(seen_actions) >= 1
                /\ Executed[Len(Executed)].code = results[Len(results)].code
    /\ outcome = "RAISED" =>
          \/ hints_raise(intent, params)
          \/ Router_has(intent) /\ build_raises(Router_get(intent), params)
          \/ Router_has(intent) /\ exec_raises(commands)

\* a callable raised after printing in one step and the next oracle query was made
C11_Witness ==
    /\ pc = "decide" /\ step >= 2
    /\ Len(behaviours) = 1 /\ PluginRaised(1)
    /\ behaviours[1].out = PrintedText
    /\ observation = Observation(1, strip(PrintedText), strip(BoomText \o <<"\n">> \o TracebackText))

\* C12: with confirm = true every shell item that was executed had been approved
\* interactively before; with confirm = false nothing is asked.
C12_ShellItemsApproved ==
    /\ confirm =>
          \A k \in DOMAIN behaviours : commands[k].kind = "shell" =>
              \E a \in DOMAIN asked : asked[a].item = k /\ asked[a].reply = "y"
    /\ ~confirm => asked = <<>>

\* C13: every run reaches a terminal state; a run that is still going after its
\* max_steps-th action ends as STOPPED_BY_MAX_STEPS with exactly max_steps
\* queries and max_steps recorded actions, and makes no further oracle query.
C13_Termination ==
    /\ <>(pc = "done")
    /\ [](pc = "done" => outcome # "RUNNING")
    /\ [](outcome = "STOPPED_BY_MAX_STEPS" =>
            (step = max_steps /\ queries = max_steps /\ Len(seen_actions) = max_steps))
    /\ [][(pc = "ask" /\ step = max_steps) =>
            (pc' = "done" /\ outcome' = "STOPPED_BY_MAX_STEPS" /\ queries' = queries)]_vars

\* a run in which every answer said stop = true, the premature-stop guard
\* suppressed each of them, and the step budget ended the run
C13_Witness ==
    /\ outcome = "STOPPED_BY_MAX_STEPS"
    /\ max_steps >= 2 /\ step = max_steps
    /\ get(data, "stop", FALSE)
    /\ Len(seen_actions) = max_steps
    /\ ~did_edit(seen_actions) /\ needs_edit(goal)

RepeatedFailure ==
    \E j \in DOMAIN Executed :
        /\ j < Len(Executed)
        /\ Executed[j].code # 0
        /\ Executed[j].code = Executed[Len(Executed)].code
        /\ <<Executed[j].intent, Executed[j].params>>
             # <<Executed[Len(Executed)].intent, Executed[Len(Executed)].params>>

\* C18: once the same non-zero code is recorded for two distinct actions, the
\* run has stopped with the guard outcome: no further oracle query, no further
\* action
C18_RepeatedFailureStops ==
    RepeatedFailure => (pc = "done" /\ outcome = "STOPPED_BY_GUARD")

\* the premature-stop guard of lines 290-296 applies to the goal and history
PrematureStop(g, seen) ==
    \/ needs_edit(g) /\ ~did_edit(seen)
    \/ needs_create(g) /\ ~did_create(seen)

\* C19: an answer with stop = true to which the premature-stop guard does not
\* apply ends the run as STOPPED_BY_MODEL in the step that received it, and the
\* intent the answer carries is not dispatched: nothing is built, executed or
\* recorded
C19_StopHonoured ==
    [][(pc = "decide" /\ IsDict(data) /\ get(data, "stop", FALSE)
        /\ ~PrematureStop(goal, seen_actions)) =>
           /\ pc' = "done" /\ outcome' = "STOPPED_BY_MODEL"
           /\ step' = step
           /\ UNCHANGED <<seen_actions, mem_buf, mem_state, commands, results,
                          behaviours, observation>>]_vars

\* a goal that asks for a creation, a create_folder already executed, and a later
\* answer that names an intent together with stop = true: the run ended there
C19_Witness ==
    /\ pc = "done" /\ outcome = "STOPPED_BY_MODEL"
    /\ oracle = "returned"
    /\ needs_create(goal) /\ did_create(seen_actions)
    /\ get(data, "stop", FALSE)
    /\ get(data, "intent", NoIntent) \in allowed_intents
    /\ step >= 2 /\ Len(seen_actions) = step - 1

\* C20: the steps of a session are strictly sequential. The prompt of step 1
\* shows "(start)"; the prompt of a later step shows the observation that the
\* previous step produced, and when it is composed every item of the previous
\* step's action has run and has its result and the action is recorded. A
\* prompt is composed only between steps: never while an answer is being
\* handled or an action is being executed.
C20_SequentialSteps ==
    /\ [](pc = "decide" =>
            /\ prompt.observation = observation_text(observation)
            /\ (step = 1 => prompt.observation = StartText)
            /\ (step >= 2 =>
                  /\ Len(seen_actions) = step - 1
                  /\ DOMAIN results = DOMAIN commands
                  /\ DOMAIN behaviours = DOMAIN commands
                  /\ observation = execute_and_observe(commands, results)
                  /\ Executed[Len(Executed)].code = observation.code))
    /\ [][(prompt' # prompt \/ queries' # queries) =>
            (pc = "ask" /\ pc' \in {"decide", "done"} /\ step' = step + 1
             /\ observation' = observation /\ commands' = commands
             /\ results' = results /\ seen_actions' = seen_actions)]_vars
    /\ [][(observation' # observation \/ results' # results) =>
            (pc = "act" /\ prompt' = prompt /\ queries' = queries /\ step' = step)]_vars

\* the prompt of a third step shows the error text of a failed second action,
\* not the output of the first
C20_Witness ==
    /\ pc = "decide" /\ step = 3
    /\ Len(Executed) = 2
    /\ Executed[1].code = 0 /\ Executed[2].code = 1
    /\ observation.output = <<>>
    /\ prompt.observation = observation.error
    /\ prompt.observation # StartText

\* a user interrupt arrived in the session: while the engine was awaited, or
\* while an item of the step's action ran
UserInterrupt ==
    \/ oracle = "interrupted"
    \/ \E k \in DOMAIN behaviours : behaviours[k].how = "interrupted"

\* C21: once a user interrupt was raised in a session the run is over: the loop
\* does not take the interrupt for an answer or for a failed action, it queries
\* the oracle no more, dispatches no further action and records nothing for the
\* interrupted one
C21_InterruptStopsSession ==
    /\ [](UserInterrupt => (pc = "done" /\ outcome = "INTERRUPTED"))
    /\ [][UserInterrupt' =>
            (UserInterrupt \/ (seen_actions' = seen_actions /\ mem_buf' = mem_buf
                               /\ observation' = observation))]_vars
    /\ [][UserInterrupt =>
            (queries' = queries /\ seen_actions' = seen_actions
             /\ commands' = commands /\ behaviours' = behaviours)]_vars

\* the second step's action was interrupted while its item ran
C21_Witness ==
    /\ pc = "done" /\ outcome = "INTERRUPTED"
    /\ step >= 2 /\ oracle = "returned"
    /\ Len(behaviours) >= 1 /\ behaviours[Len(behaviours)].how = "interrupted"
    /\ Len(seen_actions) = step - 1

\* C25: in a step with a file intent whose path starts with "./" while
\* last_folder holds a non-empty F, the path handed to the builder, the path in
\* the executed item and the value stored as last_file are F joined with the
\* rest of the path; when last_folder is not set or the path does not start
\* with "./" the path goes to the builder and the item as the oracle gave it
C25_RelativeToLastFolder ==
    /\ [][(pc = "decide" /\ pc' = "act" /\ intent' \in FILE_INTENTS
           /\ "path" \in DOMAIN response_params(data)) =>
             LET given == response_params(data)["path"]
                 F == IF "last_folder" \in DOMAIN mem_state
                      THEN mem_state["last_folder"] ELSE <<>>
             IN IF startswith(given, <<".", "/">>) /\ F # <<>>
                THEN /\ params'["path"] = path_join(F, Drop(given, 2))
                     /\ mem_state'["last_file"] = path_join(F, Drop(given, 2))
                ELSE params'["path"] = given]_vars
    /\ [][(pc = "act" /\ Len(seen_actions') > Len(seen_actions)) =>
             \A k \in DOMAIN commands' :
                commands'[k].kind = "plugin" => commands'[k].params = params]_vars

\* create_folder "~/notes" in step 1, then read_file "./a" in step 2: the item
\* executed reads "/h/notes/a", which is also last_file
C25_Witness ==
    /\ seen_actions = <<"create_folder", "read_file">>
    /\ get(data, "params", EmptyDict) = PathDict(PathRel)
    /\ Len(commands) = 1 /\ commands[1].kind = "plugin"
    /\ commands[1].params["path"] = <<"/","h","/","n","o","t","e","s","/","a">>
    /\ mem_state["last_file"] = <<"/","h","/","n","o","t","e","s","/","a">>
    /\ mem_state["last_folder"] = <<"/","h","/","n","o","t","e","s">>

\* the prompt has a "MIA: ran ... -> code=c" line
prompt_has_code(pr, c) ==
    \E k \in DOMAIN pr.history : pr.history[k].tag = "MIA" /\ pr.history[k].code = c

\* the prompt shows the text as LAST OBSERVATION or as the lines of an
\* "ERR: " entry of RECENT MESSAGES
prompt_has_error(pr, text) ==
    \/ text = <<>>
    \/ pr.observation = text
    \/ \E k \in DOMAIN pr.history :
          /\ pr.history[k].tag = "ERR"
          /\ k + Len(segments(text)) - 1 <= Len(pr.history)
          /\ \A j \in DOMAIN segments(text) :
                /\ pr.history[k + j - 1].tag # "MIA"
                /\ pr.history[k + j - 1].text = segments(text)[j]

lines_after_code(obs) ==
    (IF obs.output # <<>> THEN Len(segments(Take(obs.output, 500))) ELSE 0)
    + (IF obs.error # <<>> THEN Len(segments(Take(obs.error, 500))) ELSE 0)

C29_UnknownIntentEndsRun ==
    /\ [](pc = "act" => intent \in allowed_intents)
    /\ [][(pc = "act" /\ intent \notin DOMAIN templates) =>
            (/\ pc' = "done" /\ outcome' = "STOPPED_BY_UNKNOWN_INTENT"
             /\ step' = step /\ queries' = queries
             /\ commands' = commands /\ behaviours' = behaviours /\ results' = results
             /\ observation' = observation /\ seen_actions' = seen_actions
             /\ mem_buf' = mem_buf
             /\ log' = log \o <<UnknownIntentLine, FinishedLine>>)]_vars
    /\ [](outcome = "STOPPED_BY_UNKNOWN_INTENT" =>
            (pc = "done" /\ intent \in allowed_intents /\ intent \notin DOMAIN templates))

\* the second step named an allowed intent the registry does not have, after a
\* first step that ran an action
C29_Witness ==
    /\ outcome = "STOPPED_BY_UNKNOWN_INTENT" /\ step = 2
    /\ intent = "nosuch" /\ "nosuch" \in allowed_intents
    /\ Len(seen_actions) = 1 /\ Len(commands) = 1

\* the ways a step ends the loop without executing anything
NoActionOutcomes == {"STOPPED_BY_MODEL", "STOPPED_BY_DISALLOWED_INTENT",
                     "STOPPED_BY_ORACLE_ERROR", "STOPPED_BY_UNKNOWN_INTENT"}

\* C30: Memory is changed only by steps that executed an action. A step that
\* ends the loop without executing anything (honoured stop, disallowed intent,
\* invalid answer, intent unknown to the registry) leaves the history, the
\* symbolic context and seen_actions as they were when the step began, which
\* is the symbolic context its prompt was composed from
C30_MemoryFrame ==
    /\ [][(mem_buf' # mem_buf \/ seen_actions' # seen_actions) =>
             (pc = "act" /\ pc' = "ask" /\ behaviours' # <<>>)]_vars
    /\ []((pc = "done" /\ outcome \in NoActionOutcomes) =>
             mem_state = prompt.symbolic)

-----------------------------------------------------------------------------
(* _execute_and_observe on its own: every item list up to MaxItems *)

ObserveItems == {ShellItem(<<"x">>), PluginItem("files.read_file", EmptyDict),
                 UnknownItem}

ObserveTexts == {<<>>, <<" ">>, <<"A","\n">>, <<" ","B">>}

ObserveResults ==
    {Observation(c, o, e) : c \in {0, 2}, o \in ObserveTexts, e \in {<<>>, <<"e"," ">>}}

InitObserve ==
    /\ goal = <<>>
    /\ allowed_intents = {}
    /\ max_steps = 0
    /\ step = 0
    /\ queries = 0
    /\ pc = "observe"
    /\ oracle = "none"
    /\ data = EmptyDict
    /\ prompt = EmptyDict
    /\ intent = NoIntent
    /\ params = EmptyDict
    /\ observation = Observation(0, StartText, <<>>)
    /\ seen_actions = <<>>
    /\ mem_state = EmptyDict
    /\ mem_buf = <<>>
    /\ outcome = "RUNNING"
    /\ \E n \in 0..MaxItems :
         /\ commands \in [1..n -> ObserveItems]
         /\ results \in [1..n -> ObserveResults]
    /\ call = NoCall
    /\ confirm = FALSE
    /\ behaviours = <<>>
    /\ asked = <<>>
    /\ log = <<>>
    /\ file = <<>>

Observe ==
    /\ pc = "observe"
    /\ observation' = execute_and_observe(commands, results)
    /\ pc' = "observed"
    /\ UNCHANGED <<goal, allowed_intents, max_steps, step, queries, oracle, data, prompt,
                   intent, params, seen_actions, mem_state, mem_buf, outcome, commands,
                   results, call, confirm, behaviours, asked, log, file>>

NextObserve == Observe

SpecObserve == InitObserve /\ [][NextObserve]_vars

\* the trimmed, non-empty texts joined by a newline, in order
RECURSIVE JoinTrimmed(_)
JoinTrimmed(texts) ==
    IF texts = <<>> THEN <<>>
    ELSE LET h == strip(Head(texts))
             rest == JoinTrimmed(Tail(texts))
         IN IF h = <<>> THEN rest
            ELSE IF rest = <<>> THEN h
            ELSE h \o <<"\n">> \o rest

ItemObs(k) == item_obs(commands[k], results[k])

\* C5: the aggregated status code is the last item's (0 for an empty list) and
\* stdout, stderr are the per-item trimmed non-empty texts joined by a newline in
\* execution order.
C5_Aggregation ==
    pc = "observed" =>
        /\ observation.code = IF commands = <<>> THEN 0 ELSE ItemObs(Len(commands)).code
        /\ observation.output = JoinTrimmed([k \in DOMAIN commands |-> ItemObs(k).output])
        /\ observation.error = JoinTrimmed([k \in DOMAIN commands |-> ItemObs(k).error])

\* first item exits 0 with "A", second exits 2 with "B": status 2, stdout "A\nB"
C5_Witness ==
    /\ pc = "observed"
    /\ Len(commands) = 2
    /\ commands[1].kind = "shell" /\ commands[2].kind = "shell"
    /\ results[1] = Observation(0, <<"A","\n">>, <<>>)
    /\ results[2] = Observation(2, <<" ","B">>, <<>>)
    /\ observation = Observation(2, <<"A","\n","B">>, <<>>)

-----------------------------------------------------------------------------
(* Memory on its own: up to MaxCalls operations on a fresh Memory *)

MemKeys == {"last_folder", "last_file"}

MemValues == {PathHome, <<"~">>, <<"~","/","x">>, <<"~","b","/","x">>, PathRel,
              <<"/","t">>}

MemDefaults == {None, <<"d">>}

MemTexts == {<<"h","i">>, <<"y","o">>}

\* Memory(maxlen=n): the default and capacities small enough to fill
MemCapacities == {0, 1, 2, maxlen}

InitMemory ==
    /\ goal = <<>>
    /\ allowed_intents = {}
    /\ max_steps = 0
    /\ step = 0          \* here: the number of Memory operations applied so far
    /\ queries = 0
    /\ pc = "memory"
    /\ oracle = "none"
    /\ data = EmptyDict
    /\ prompt = EmptyDict
    /\ intent = NoIntent
    /\ params = EmptyDict
    /\ observation = Observation(0, StartText, <<>>)
    /\ seen_actions = <<>>
    /\ mem_state = EmptyDict
    /\ mem_buf = <<>>
    /\ outcome = "RUNNING"
    /\ commands = <<>>
    /\ results = <<>>
    /\ \E n \in MemCapacities : call = [op |-> "init", maxlen |-> n, added |-> <<>>]
    /\ confirm = FALSE
    /\ behaviours = <<>>
    /\ asked = <<>>
    /\ log = <<>>
    /\ file = <<>>

MemoryFrame ==
    UNCHANGED <<goal, allowed_intents, max_steps, queries, pc, oracle, data, prompt,
                intent, params, observation, seen_actions, outcome, commands, results,
                confirm, behaviours, asked, log, file>>

MemorySet ==
    /\ pc = "memory" /\ step < MaxCalls
    /\ \E k \in MemKeys : \E v \in MemValues :
         /\ mem_state' = Memory_set(mem_state, k, v)
         /\ call' = [op |-> "set", key |-> k, value |-> v,
                     before |-> Memory_get(mem_state, k, None),
                     maxlen |-> call.maxlen, added |-> call.added]
    /\ step' = step + 1
    /\ UNCHANGED mem_buf
    /\ MemoryFrame

MemoryGet ==
    /\ pc = "memory" /\ step < MaxCalls
    /\ \E k \in MemKeys : \E d \in MemDefaults :
         call' = [op |-> "get", key |-> k, default |-> d,
                  ret |-> Memory_get(mem_state, k, d),
                  maxlen |-> call.maxlen, added |-> call.added]
    /\ step' = step + 1
    /\ UNCHANGED <<mem_state, mem_buf>>
    /\ MemoryFrame

MemoryAdd ==
    /\ pc = "memory" /\ step < MaxCalls
    /\ \E t \in MemTexts :
         /\ mem_buf' = deque_append(mem_buf, t, call.maxlen)
         /\ call' = [op |-> "add", text |-> t,
                     maxlen |-> call.maxlen, added |-> Append(call.added, t)]
    /\ step' = step + 1
    /\ UNCHANGED mem_state
    /\ MemoryFrame

NextMemory == MemorySet \/ MemoryGet \/ MemoryAdd

SpecMemory == InitMemory /\ [][NextMemory]_vars

IsHomeShorthand(v) == v = <<"~">> \/ startswith(v, <<"~","/">>)

\* C6: after set(key, "~/..."), get(key) gives the home directory followed by the
\* rest of the path (an absolute path, never the literal); a set on a key that
\* already holds a value replaces it; get on a key never set gives the default.
C6_MemoryRoundTrip ==
    /\ (call.op = "set" /\ IsHomeShorthand(call.value)) =>
          /\ Memory_get(mem_state, call.key, None) = HOME \o Drop(call.value, 1)
          /\ Memory_get(mem_state, call.key, None) # call.value
          /\ Head(Memory_get(mem_state, call.key, None)) = "/"
    /\ (call.op = "set" /\ ~startswith(call.value, <<"~">>)) =>
          Memory_get(mem_state, call.key, None) = call.value
    /\ (call.op = "get" /\ call.key \notin DOMAIN mem_state) => call.ret = call.default
    /\ (call.op = "get" /\ call.key \in DOMAIN mem_state) =>
          /\ call.ret = mem_state[call.key]
          /\ ~IsHomeShorthand(call.ret)

\* a home-shorthand value set over a different value the key held before
C6_Witness ==
    /\ call.op = "set"
    /\ IsHomeShorthand(call.value)
    /\ call.before # None
    /\ call.before # Memory_get(mem_state, call.key, None)

\* the last n entries of the sequence
last_entries(s, n) == SubSeq(s, Len(s) - n + 1, Len(s))

\* C22: after any sequence of add calls on a Memory of capacity N the history
\* holds at most N entries and is the last min(N, k) of the k entries added, in
\* the order they were added; add leaves the symbolic store as it was and set
\* leaves the history as it was
C22_BoundedFifo ==
    /\ [](Len(mem_buf) <= call.maxlen)
    /\ [](mem_buf = last_entries(call.added,
                                 IF Len(call.added) < call.maxlen
                                 THEN Len(call.added) ELSE call.maxlen))
    /\ [][call'.op = "add" => mem_state' = mem_state]_vars
    /\ [][call'.op = "set" => mem_buf' = mem_buf]_vars

\* a Memory of capacity 2 after three adds of which the first was evicted, the
\* entry evicted being different from both entries kept
C22_Witness ==
    /\ call.op = "add" /\ call.maxlen = 2 /\ Len(call.added) = 3
    /\ mem_buf = <<call.added[2], call.added[3]>>
    /\ call.added[1] # call.added[2]

-----------------------------------------------------------------------------
(* files.edit_file with a keyword: texts are character sequences, offsets   *)
(* count characters from 0 as the regular expression engine does            *)

MaxFileLines == 3

Blanks == {" ", "\t"}

Digits == {"0","1","2","3","4","5","6","7","8","9"}

Letters == {Lowercase[i] : i \in DOMAIN Lowercase} \cup {Upper[i] : i \in DOMAIN Upper}

WordChars == Letters \cup Digits \cup {"_"}

\* t[p:p+len(w)] == w
at(t, p, w) == p + Len(w) <= Len(t) /\ SubSeq(t, p + 1, p + Len(w)) = w

\* '^' under re.MULTILINE
is_line_start(t, p) == p = 0 \/ (p <= Len(t) /\ t[p] = "\n")

\* '\b'
word_boundary(t, p) ==
    (p >= 1 /\ p <= Len(t) /\ t[p] \in WordChars) # (p < Len(t) /\ t[p + 1] \in WordChars)

\* the offset after [ \t]* matched from p
RECURSIVE skip_blanks(_, _)
skip_blanks(t, p) == IF p < Len(t) /\ t[p + 1] \in Blanks THEN skip_blanks(t, p + 1) ELSE p

\* str.split('(')[0]
RECURSIVE before_paren(_)
before_paren(s) ==
    IF s = <<>> \/ Head(s) = "(" THEN <<>> ELSE <<Head(s)>> \o before_paren(Tail(s))

\* keyword.strip().split('(')[0]
block_name(keyword) == before_paren(strip(keyword))

NoMatch == -1

\* (def|class)[ \t]+NAME\b matched from q: the offset after NAME, or NoMatch
name_from(t, k, n, name) ==
    IF k # NoMatch /\ n > k /\ at(t, n, name) /\ word_boundary(t, n + Len(name))
    THEN n + Len(name) ELSE NoMatch

\* the offset after def or class at q, or NoMatch
after_def(t, q) ==
    IF at(t, q, <<"d","e","f">>) THEN q + 3
    ELSE IF at(t, q, <<"c","l","a","s","s">>) THEN q + 5 ELSE NoMatch

blanks_from(t, k) == IF k = NoMatch THEN NoMatch ELSE skip_blanks(t, k)

header_name(t, k, name) == name_from(t, k, blanks_from(t, k), name)

header_from(t, q, name) == header_name(t, after_def(t, q), name)

\* ^[ \t]*(async[ \t]+)?(def|class)[ \t]+NAME\b matched at p
\* the offset after (async[ \t]+)? at q, or NoMatch when async is followed by
\* something else than a blank
after_async(t, q, q2) ==
    IF at(t, q, <<"a","s","y","n","c">>) THEN (IF q2 > q + 5 THEN q2 ELSE NoMatch) ELSE q

def_start(t, q) == after_async(t, q, skip_blanks(t, q + 5))

header_or_none(t, q, name) == IF q = NoMatch THEN NoMatch ELSE header_from(t, q, name)

header_at(t, p, name) ==
    IF ~is_line_start(t, p) THEN NoMatch
    ELSE header_or_none(t, def_start(t, skip_blanks(t, p)), name)

\* the lookahead (?=^[ \t]*(?:def|class|@|\Z)) at p
terminator_from(t, q) ==
    \/ at(t, q, <<"d","e","f">>)
    \/ at(t, q, <<"c","l","a","s","s">>)
    \/ at(t, q, <<"@">>)
    \/ q = Len(t)

terminator_at(t, p) == is_line_start(t, p) /\ terminator_from(t, skip_blanks(t, p))

min_or_none(S) == IF S = {} THEN NoMatch ELSE Min(S)

\* where the lazy .*? started at h stops, or NoMatch
block_end(t, h) == min_or_none({e \in h..Len(t) : terminator_at(t, e)})

\* the pattern without decorators matched at p: the end offset, or NoMatch
end_from(t, h) == IF h = NoMatch THEN NoMatch ELSE block_end(t, h)

plain_match(t, p, name) == end_from(t, header_at(t, p, name))

\* ^[ \t]*@ at p
decorator_at(t, p) == is_line_start(t, p) /\ at(t, skip_blanks(t, p), <<"@">>)

\* under re.DOTALL the greedy .* of a decorator line runs over newlines: the
\* header that follows it is the last one in the text that matches
\* the matches <<start, end>> of the pattern without decorators after p
headers_after(t, p, name) ==
    {m \in {<<j, plain_match(t, j, name)>> : j \in (p + 1)..Len(t)} : m[2] # NoMatch}

\* the end of the match with the greatest start, or NoMatch
last_end(ms) ==
    IF ms = {} THEN NoMatch
    ELSE (CHOOSE m \in ms : \A n \in ms : n[1] <= m[1])[2]

decorated_match(t, p, name) ==
    IF decorator_at(t, p) THEN last_end(headers_after(t, p, name)) ELSE NoMatch

first_of(a, b) == IF a # NoMatch THEN a ELSE b

match_at(t, p, name) == first_of(decorated_match(t, p, name), plain_match(t, p, name))

\* the match with the least start, or <<>>
first_match(ms) ==
    IF ms = {} THEN <<>>
    ELSE CHOOSE m \in ms : \A n \in ms : m[1] <= n[1]

\* re.search(block_pattern, before, DOTALL | MULTILINE): <<start, end>> or <<>>
search_block(t, name) ==
    first_match({m \in {<<p, match_at(t, p, name)>> : p \in 0..Len(t)} : m[2] # NoMatch})

\* "\n".join(parts), empty parts kept
RECURSIVE join_nl(_)
join_nl(parts) ==
    IF parts = <<>> THEN <<>>
    ELSE IF Len(parts) = 1 THEN parts[1]
    ELSE parts[1] \o <<"\n">> \o join_nl(Tail(parts))

\* lines 145-151: every line of new_content re-indented to base_indent
fixed_content(new_content, base_indent) ==
    LET ls == splitlines(new_content)
    IN join_nl([i \in DOMAIN ls |->
                  IF strip(ls[i]) # <<>> THEN base_indent \o lstrip(ls[i]) ELSE <<>>])
       \o <<"\n">>

\* ^[ \t]*KEYWORD[ \t]*$ on one line
line_matches(l, kw) ==
    \E i \in 0..Len(l) :
        /\ \A k \in 1..i : l[k] \in Blanks
        /\ at(l, i, kw)
        /\ \A k \in (i + Len(kw) + 1)..Len(l) : l[k] \in Blanks

Backslash == "\\"

BadTemplate == [ok |-> FALSE, text |-> <<>>]

Prepend(chars, r) == IF r.ok THEN [ok |-> TRUE, text |-> chars \o r.text] ELSE r

\* what the escape \c of a replacement template stands for
EscapeChar(c) ==
    CASE c = "n" -> "\n" [] c = "t" -> "\t" [] c = "r" -> "\r" [] c = "f" -> "\f"
      [] c = "a" -> "<BEL>" [] c = "b" -> "<BS>" [] c = "v" -> "<VT>"

\* the replacement template of re.subn expanded for the match m: a backslash
\* starts an escape, a group reference or an error
RECURSIVE expand_template(_, _)
expand_template(r, m) ==
    IF r = <<>> THEN [ok |-> TRUE, text |-> <<>>]
    ELSE IF Head(r) # Backslash THEN Prepend(<<Head(r)>>, expand_template(Tail(r), m))
    ELSE IF Len(r) = 1 THEN BadTemplate
    ELSE LET c == r[2]
         IN IF c \in {"n", "t", "r", "f", "a", "b", "v"}
            THEN Prepend(<<EscapeChar(c)>>, expand_template(Drop(r, 2), m))
            ELSE IF c = Backslash
            THEN Prepend(<<Backslash>>, expand_template(Drop(r, 2), m))
            ELSE IF c = "g"
            THEN IF at(r, 2, <<"<","0",">">>)
                 THEN Prepend(m, expand_template(Drop(r, 5), m))
                 ELSE BadTemplate     \* the pattern has no other group
            ELSE IF c = "0"
            THEN Prepend(<<"<NUL>">>, expand_template(Drop(r, 2), m))
            ELSE IF c \in Digits \cup Letters
            THEN BadTemplate          \* invalid group reference, bad escape
            ELSE Prepend(<<Backslash, c>>, expand_template(Drop(r, 2), m))

\* lines 157-159: re.subn(pattern, new_content, before, flags=re.MULTILINE)
subn_lines(t, kw, new_content) ==
    LET segs == segments(t)
        hits == {i \in DOMAIN segs : line_matches(segs[i], kw)}
    IN IF hits = {} THEN [ok |-> TRUE, n |-> 0, text |-> t]
       ELSE IF \E i \in hits : ~expand_template(new_content, segs[i]).ok
       THEN [ok |-> FALSE, n |-> 0, text |-> t]
       ELSE [ok |-> TRUE, n |-> Cardinality(hits),
             text |-> join_nl([i \in DOMAIN segs |->
                                 IF i \in hits
                                 THEN expand_template(new_content, segs[i]).text
                                 ELSE segs[i]])]

NoFile == <<"#None">>

EditResult(c, text, h) == [ret |-> c, text |-> text, how |-> h]

\* ^([ \t]*) on the line
leading_blanks(l) == Take(l, skip_blanks(l, 0))

\* lines 139-154: the block matched at m replaced
replace_block(before, new_content, m, ls) ==
    IF m[1] >= Len(ls)
    THEN EditResult(1, before, "error")  \* IndexError at line 140
    ELSE EditResult(0, Take(before, m[1])
                         \o fixed_content(new_content, leading_blanks(ls[m[1] + 1]))
                         \o Drop(before, m[2]), "block")

\* lines 156-159 and 187-195: the outcome r of the line substitution written
replace_lines(before, r) ==
    IF ~r.ok THEN EditResult(1, before, "error")   \* re.error
    ELSE EditResult(IF r.n > 0 THEN 0 ELSE 1, r.text, "line")

edit_with_match(before, new_content, keyword, m) ==
    IF m # <<>> THEN replace_block(before, new_content, m, splitlines(before))
    ELSE replace_lines(before, subn_lines(before, keyword, new_content))

\* edit_file(path, new_content, keyword=keyword) on a file holding `before`
edit_file(before, new_content, keyword) ==
    IF before = NoFile THEN EditResult(1, before, "not_found")
    ELSE IF keyword = None \/ keyword = <<>>
    THEN EditResult(0, rstrip(new_content) \o <<"\n">>, "overwrite")
    ELSE edit_with_match(before, new_content, keyword,
                         search_block(before, block_name(keyword)))

-----------------------------------------------------------------------------
(* edit_file on its own: every file of up to MaxFileLines lines *)

EditLines == { <<"@","d">>,
               <<"d","e","f"," ","t","(",")",":">>,
               <<" ","r">>,
               <<"d","e","f"," ","u","(",")",":">>,
               <<"t">>,
               <<" ","t"," ">>,
               <<"a"," ","t">> }

EditKeywords == { <<"t">>, <<"u">>, None }

NewBlock == <<"d","e","f"," ","t","(",")",":","\n"," "," ","y","\n">>

EscapedNewline == <<"p","\\","n">>

EditContents == { <<"N">>, NewBlock, EscapedNewline, <<"q","\\","d">> }

\* the lines joined by newlines, with or without a newline after the last one
file_text(ls, final_newline) ==
    join_nl(ls) \o (IF final_newline /\ ls # <<>> THEN <<"\n">> ELSE <<>>)

EditFiles ==
    {file_text(ls, nl) : ls \in UNION {[1..n -> EditLines] : n \in 0..MaxFileLines},
                         nl \in BOOLEAN}
    \cup {NoFile}

InitEdit ==
    /\ goal = <<>>
    /\ allowed_intents = {}
    /\ max_steps = 0
    /\ step = 0
    /\ queries = 0
    /\ pc = "edit"
    /\ oracle = "none"
    /\ data = EmptyDict
    /\ prompt = EmptyDict
    /\ intent = NoIntent
    /\ params = EmptyDict
    /\ observation = Observation(0, StartText, <<>>)
    /\ seen_actions = <<>>
    /\ mem_state = EmptyDict
    /\ mem_buf = <<>>
    /\ outcome = "RUNNING"
    /\ commands = <<>>
    /\ results = <<>>
    /\ \E kw \in EditKeywords : \E nc \in EditContents :
         call = [op |-> "args", keyword |-> kw, new_content |-> nc]
    /\ confirm = FALSE
    /\ behaviours = <<>>
    /\ asked = <<>>
    /\ log = <<>>
    /\ file \in EditFiles

EditFile ==
    /\ pc = "edit"
    /\ LET r == edit_file(file, call.new_content, call.keyword)
       IN /\ file' = r.text
          /\ call' = [op |-> "edit_file", keyword |-> call.keyword,
                      new_content |-> call.new_content, before |-> file,
                      ret |-> r.ret, how |-> r.how]
    /\ pc' = "edited"
    /\ UNCHANGED <<goal, allowed_intents, max_steps, step, queries, oracle, data, prompt,
                   intent, params, observation, seen_actions, mem_state, mem_buf,
                   outcome, commands, results, confirm, behaviours, asked, log>>

NextEdit == EditFile

SpecEdit == InitEdit /\ [][NextEdit]_vars

-----------------------------------------------------------------------------
(* Properties of edit_file with a keyword *)

\* the text holds a def or class header for the name
has_block(t, name) == \E p \in 0..Len(t) : header_at(t, p, name) # NoMatch

\* the lines of the text that are def or class headers for another name
other_headers(t, name) ==
    {l \in {splitlines(t)[i] : i \in DOMAIN splitlines(t)} :
        /\ at(l, skip_blanks(l, 0), <<"d","e","f">>) \/ at(l, skip_blanks(l, 0), <<"c","l","a","s","s">>)
        /\ header_at(l, 0, name) = NoMatch}

edited_with_keyword ==
    pc = "edited" /\ call.keyword # None /\ call.before # NoFile

\* C15: when the file holds a def or class named by the keyword, edit_file
\* returns 0, the header of every other block is still in the file, and the
\* block's old header is replaced, wherever in the file the block starts
C15_BlockReplaced ==
    (edited_with_keyword /\ has_block(call.before, block_name(call.keyword))) =>
        /\ call.ret = 0
        /\ \A l \in other_headers(call.before, block_name(call.keyword)) :
              \E i \in DOMAIN splitlines(file) : splitlines(file)[i] = l

\* C16: when the keyword names no def or class of the file, the file after
\* edit_file is the file before with exactly the lines made of the keyword and
\* surrounding blanks replaced by new_content, every other line as it was, and
\* the call returns 0 when there is such a line
C16_AnchoredLineReplaced ==
    (edited_with_keyword /\ ~has_block(call.before, block_name(call.keyword))) =>
        LET segs == segments(call.before)
            hits == {i \in DOMAIN segs : line_matches(segs[i], call.keyword)}
        IN /\ file = join_nl([i \in DOMAIN segs |->
                                IF i \in hits THEN call.new_content ELSE segs[i]])
           /\ (hits # {} => call.ret = 0)

-----------------------------------------------------------------------------
(* Executor.run and the loop of the graphical front end (App._handle) *)

GUI_MAX_STEPS == 5

Replies == {"y", "n"}

\* an executor that runs every item whatever the reply
item_runs_always(item, conf, reply) == item.kind # "unknown"

\* Executor.run executes the item: a shell item unless the approval is declined,
\* a plugin item always, an item of another shape never
item_runs(item, conf, reply) ==
    CASE item.kind = "shell" -> ~conf \/ reply = "y"
      [] item.kind = "plugin" -> TRUE
      [] OTHER -> FALSE

\* the code Executor.run takes from an item it executed
item_code(item, b) ==
    IF item.kind = "shell" THEN b.code
    ELSE IF item.plugin \notin PluginFunctions \/ b.how = "raised" THEN 1
    ELSE b.code

\* what executing the item can do under Executor.run
executor_behaviours(item) ==
    IF item.kind = "shell" THEN {Exited(0, OkText, <<>>), Exited(1, <<>>, BoomText)}
    ELSE IF item.plugin \notin PluginFunctions THEN {Raised(<<>>, BoomText)}
    ELSE item_behaviours(item)

\* the code Executor.run returns: the code of the last item it executed, 0 if none
RECURSIVE executor_code(_, _, _, _, _)
executor_code(cmds, conf, replies, behs, code) ==
    IF cmds = <<>> THEN code
    ELSE executor_code(Tail(cmds), conf, Tail(replies), Tail(behs),
                       IF item_runs(Head(cmds), conf, Head(replies))
                       THEN item_code(Head(cmds), Head(behs)) ELSE code)

\* the approvals Executor.run asks for, in order, with the replies
RECURSIVE executor_asked(_, _, _, _)
executor_asked(cmds, conf, replies, k) ==
    IF k > Len(cmds) THEN <<>>
    ELSE (IF cmds[k].kind = "shell" /\ conf
          THEN <<[item |-> k, reply |-> replies[k]]>> ELSE <<>>)
         \o executor_asked(cmds, conf, replies, k + 1)

\* Executor._render: Template(template).render(**(params or {}))
Executor_render(template, p) ==
    render(template, IF p = NoParams \/ DOMAIN p = {} THEN EmptyDict ELSE p)

\* the exception Executor.build raises, or "none"
Executor_build_error(spec, p) ==
    IF "shell" \in DOMAIN spec
    THEN (IF \E i \in DOMAIN spec.shell : p # NoParams /\ ~IsDict(p)
          THEN "TypeError" ELSE "none")
    ELSE IF "plugin" \in DOMAIN spec THEN "none"
    ELSE "ValueError"

\* Executor.build, lines 20-24: the items it returns when it does not raise
Executor_build(spec, p) ==
    IF "shell" \in DOMAIN spec
    THEN [i \in DOMAIN spec.shell |-> ShellItem(Executor_render(spec.shell[i], p))]
    ELSE <<PluginItem(spec.plugin, p)>>

\* the answers the engine gives in the front end
GuiResponses ==
    { WellFormed("create_folder", PathDict(PathHome), FALSE),
      WellFormed("create_folder", PathDict(PathHome), TRUE),
      WellFormed("read_file", PathDict(PathRel), FALSE),
      WellFormed("edit_file", EditDict(PathRel), FALSE),
      WellFormed("list_dir", PathDict(PathHome), FALSE),
      WellFormed("create_folder", PathDict(NonStr), FALSE),
      WellFormed("list_dir", ParamsList, FALSE),
      WellFormed(NoIntent, EmptyDict, FALSE),
      WellFormed("nosuch", EmptyDict, FALSE),
      WellFormed("noop", EmptyDict, FALSE),
      WellFormed("uptime", EmptyDict, FALSE),
      NotADict }

GuiEngineOutcomes ==
    {[how |-> "returned", value |-> d] : d \in GuiResponses}
    \cup {[how |-> "raised", value |-> NotADict]}

UserEntry(text) == [tag |-> "User", text |-> text]
DataEntry(d) == [tag |-> "MIA", data |-> d]

GuiInvalidLine == "Error: Invalid response from engine"
GuiReportLine == "<report>"
GuiMissingIntentLine == "Error: Missing intent from engine response."
GuiGuardSuccessLine == "[GUARD] Repeated successful action detected, stopping before re-running."
GuiGuardFailureLine == "[GUARD] Repeated failing action detected, stopping loop."
GuiMaxStepsLine == "Reached max steps without stop signal."
GuiErrorLine == "Error: <exception>"

\* (intent, tuple(sorted(params.items())))
action_key(i, p) == <<i, p>>

\* lines 105-108
gui_update_hints(i, p, state) ==
    IF i = "create_folder" /\ "path" \in DOMAIN p
    THEN Memory_set(state, "last_folder", p["path"])
    ELSE IF i \in {"create_file", "write_file", "edit_file"} /\ "path" \in DOMAIN p
    THEN Memory_set(state, "last_file", p["path"])
    ELSE state

gui_hints_raise(i, p) ==
    /\ i \in {"create_folder", "create_file", "write_file", "edit_file"}
    /\ "path" \in DOMAIN p
    /\ ~IsStr(p["path"])

\* list(seen_actions.values()).count(code)
count_code(seen, code) == Cardinality({k \in DOMAIN seen : seen[k] = code})

record_code(seen, key, code) ==
    [k \in DOMAIN seen \cup {key} |-> IF k = key THEN code ELSE seen[k]]

InitGui ==
    /\ goal \in {NotesGoal}
    /\ allowed_intents = {}
    /\ max_steps = GUI_MAX_STEPS
    /\ step = 0
    /\ queries = 0
    /\ pc = "gui_start"
    /\ oracle = "none"
    /\ data = EmptyDict
    /\ prompt = EmptyDict
    /\ intent = NoIntent
    /\ params = EmptyDict
    /\ observation = Observation(0, <<>>, <<>>)
    /\ seen_actions = EmptyDict
    /\ mem_state = EmptyDict
    /\ mem_buf = <<>>
    /\ outcome = "RUNNING"
    /\ commands = <<>>
    /\ results = <<>>
    /\ call = NoCall
    /\ confirm \in BOOLEAN
    /\ behaviours = <<>>
    /\ asked = <<>>
    /\ log = <<>>
    /\ file = <<>>

GuiFrame == UNCHANGED <<goal, allowed_intents, max_steps, call, confirm, file, results>>

\* lines 64-73
GuiStart ==
    /\ pc = "gui_start"
    /\ mem_buf' = Memory_add(mem_buf, UserEntry(goal))
    /\ pc' = "gui_loop"
    /\ UNCHANGED <<step, queries, oracle, data, prompt, intent, params, observation,
                   seen_actions, mem_state, outcome, commands, behaviours, asked, log>>
    /\ GuiFrame

\* lines 74-82: the while test, the prompt, the engine call
GuiAsk ==
    /\ pc = "gui_loop"
    /\ step < GUI_MAX_STEPS
    /\ step' = step + 1
    /\ queries' = queries + 1
    /\ prompt' = [symbolic |-> mem_state, history |-> mem_buf, text |-> goal,
                  followup |-> IF step = 0 THEN NoCall
                               ELSE [intent |-> intent, params |-> params,
                                     code |-> observation.code]]
    /\ \E e \in GuiEngineOutcomes :
         /\ oracle' = e.how
         /\ IF e.how = "raised"
            THEN /\ log' = Append(log, GuiErrorLine)   \* line 136
                 /\ Finish("STOPPED_BY_EXCEPTION")
                 /\ UNCHANGED data
            ELSE /\ data' = e.value
                 /\ pc' = "gui_decide"
                 /\ UNCHANGED <<log, outcome>>
    /\ UNCHANGED <<intent, params, observation, seen_actions, mem_state, mem_buf,
                   commands, behaviours, asked>>
    /\ GuiFrame

\* the while test fails
GuiLoopExit ==
    /\ pc = "gui_loop"
    /\ ~(step < GUI_MAX_STEPS)
    /\ pc' = "gui_after"
    /\ outcome' = "STOPPED_BY_MAX_STEPS"
    /\ UNCHANGED <<step, queries, oracle, data, prompt, intent, params, observation,
                   seen_actions, mem_state, mem_buf, commands, behaviours, asked, log>>
    /\ GuiFrame

GuiBreak(o, line) ==
    /\ pc' = "gui_after"
    /\ outcome' = o
    /\ log' = Append(log, line)

GuiExcept ==
    /\ Finish("STOPPED_BY_EXCEPTION")
    /\ log' = Append(log, GuiErrorLine)

\* lines 85-130: one answer handled, the action built and run, the guards
GuiStep ==
    /\ pc = "gui_decide"
    /\ IF ~IsDict(data)
       THEN /\ GuiBreak("STOPPED_BY_ORACLE_ERROR", GuiInvalidLine)
            /\ UNCHANGED <<intent, params, mem_state, mem_buf, seen_actions, commands,
                           behaviours, asked, observation>>
       ELSE LET i == get(data, "intent", NoIntent)
                p == response_params(data)
                buf1 == Memory_add(mem_buf, DataEntry(data))
            IN /\ intent' = i /\ params' = p
               /\ IF get(data, "stop", FALSE)
                  THEN /\ GuiBreak("STOPPED_BY_MODEL", GuiReportLine)
                       /\ mem_buf' = buf1
                       /\ UNCHANGED <<mem_state, seen_actions, commands, behaviours,
                                      asked, observation>>
                  ELSE IF i = NoIntent
                  THEN /\ GuiBreak("STOPPED_BY_MISSING_INTENT", GuiMissingIntentLine)
                       /\ mem_buf' = buf1
                       /\ UNCHANGED <<mem_state, seen_actions, commands, behaviours,
                                      asked, observation>>
                  ELSE IF gui_hints_raise(i, p) \/ ~IsDict(p)
                  THEN /\ GuiExcept
                       /\ mem_buf' = buf1
                       /\ UNCHANGED <<mem_state, seen_actions, commands, behaviours,
                                      asked, observation>>
                  ELSE IF /\ action_key(i, p) \in DOMAIN seen_actions
                          /\ seen_actions[action_key(i, p)] = 0
                  THEN /\ GuiBreak("STOPPED_BY_GUARD", GuiGuardSuccessLine)
                       /\ mem_buf' = buf1
                       /\ mem_state' = gui_update_hints(i, p, mem_state)
                       /\ UNCHANGED <<seen_actions, commands, behaviours, asked,
                                      observation>>
                  ELSE IF ~Router_has(i) \/ Executor_build_error(Router_get(i), p) # "none"
                  THEN /\ GuiExcept
                       /\ mem_buf' = buf1
                       /\ mem_state' = gui_update_hints(i, p, mem_state)
                       /\ UNCHANGED <<seen_actions, commands, behaviours, asked,
                                      observation>>
                  ELSE LET cmds == Executor_build(Router_get(i), p)
                       IN \E replies \in [DOMAIN cmds -> Replies] :
                          \E behs \in [DOMAIN cmds -> ShellBehaviours \cup PluginBehaviours
                                          \cup {Raised(<<>>, TypeErrorText),
                                                Raised(<<>>, BoomText)}] :
                            LET code == executor_code(cmds, confirm, replies, behs, 0)
                                seen1 == record_code(seen_actions, action_key(i, p), code)
                            IN /\ \A k \in DOMAIN cmds :
                                    /\ behs[k] \in executor_behaviours(cmds[k])
                                    /\ (cmds[k].kind # "shell" \/ ~confirm) => replies[k] = "y"
                               /\ commands' = cmds
                               /\ behaviours' = behs
                               /\ asked' = executor_asked(cmds, confirm, replies, 1)
                               /\ observation' = Observation(code, <<>>, <<>>)
                               /\ mem_state' = gui_update_hints(i, p, mem_state)
                               /\ mem_buf' = Memory_add(buf1, RanEntry(i, p, code))
                               /\ seen_actions' = seen1
                               /\ IF code # 0 /\ count_code(seen1, code) > 1
                                  THEN GuiBreak("STOPPED_BY_GUARD", GuiGuardFailureLine)
                                  ELSE /\ pc' = "gui_loop"
                                       /\ UNCHANGED <<outcome, log>>
    /\ UNCHANGED <<step, queries, oracle, data, prompt>>
    /\ GuiFrame

\* lines 132-133: after the loop
GuiAfter ==
    /\ pc = "gui_after"
    /\ pc' = "done"
    /\ log' = IF step >= GUI_MAX_STEPS THEN Append(log, GuiMaxStepsLine) ELSE log
    /\ UNCHANGED <<step, queries, oracle, data, prompt, intent, params, observation,
                   seen_actions, mem_state, mem_buf, outcome, commands, behaviours,
                   asked>>
    /\ GuiFrame

NextGui == GuiStart \/ GuiAsk \/ GuiLoopExit \/ GuiStep \/ GuiAfter

SpecGui == InitGui /\ [][NextGui]_vars

-----------------------------------------------------------------------------
(* cli.py chat: the prompt loop of the command line, one turn per input line *)

MaxTurns == 2

QuitText == <<"Q","u","i","t"," ">>
ExitText == <<"e","x","i","t">>

ChatTexts == {NotesGoal, QuitText, ExitText}

\* line 30: text.strip().lower() in {"quit","exit"}
is_quit(text) == lower(strip(text)) \in {<<"q","u","i","t">>, <<"e","x","i","t">>}

\* line 31: the text as typed, with no prefix
ChatEntry(text) == [tag |-> "", text |-> text]

\* line 34: data.get('params', {})
chat_params(d) == get(d, "params", EmptyDict)

\* line 38
ChatDoneLine(code) == <<"Done. Exit code:", code>>
\* line 42
ChatErrorLine == "Error: <exception>"

\* line 37: the latest call of execu.run made by the chat loop
ChatRun(i, p, code) == [op |-> "chat_run", intent |-> i, params |-> p, code |-> code]

\* the window handler or the chat loop, after construction
InitFront ==
    /\ goal \in {NotesGoal}
    /\ allowed_intents = {}
    /\ max_steps = GUI_MAX_STEPS
    /\ step = 0
    /\ queries = 0
    /\ pc \in {"gui_start", "chat"}
    /\ oracle = "none"
    /\ data = EmptyDict
    /\ prompt = EmptyDict
    /\ intent = NoIntent
    /\ params = EmptyDict
    /\ observation = Observation(0, <<>>, <<>>)
    /\ seen_actions = EmptyDict
    /\ mem_state = EmptyDict
    /\ mem_buf = <<>>
    /\ outcome = "RUNNING"
    /\ commands = <<>>
    /\ results = <<>>
    /\ call = NoCall
    /\ confirm \in BOOLEAN
    /\ behaviours = <<>>
    /\ asked = <<>>
    /\ log = <<>>
    /\ file = <<>>

ChatFrame == UNCHANGED <<allowed_intents, max_steps, prompt, seen_actions, mem_state,
                         confirm, file, results>>

\* lines 29-30 and 39-40: quit or exit typed, or Ctrl-C at the prompt
ChatBreak ==
    /\ pc = "chat"
    /\ \/ \E text \in ChatTexts :
            /\ is_quit(text)
            /\ goal' = text
            /\ Finish("STOPPED_BY_USER")
       \/ /\ Finish("INTERRUPTED")
          /\ UNCHANGED goal
    /\ UNCHANGED <<step, queries, oracle, data, intent, params, observation, mem_buf,
                   commands, behaviours, asked, log, call>>
    /\ ChatFrame

\* what the except clause of lines 41-42 does: the error line, and the loop goes on
ChatExcept ==
    /\ log' = Append(log, ChatErrorLine)
    /\ UNCHANGED <<commands, behaviours, asked, observation, call>>

\* lines 27-42: one turn that is not a quit: the text is remembered, the engine
\* is asked, the intent of the answer is looked up, built and run
ChatTurn ==
    /\ pc = "chat"
    /\ step < MaxTurns
    /\ \E text \in ChatTexts : \E e \in GuiEngineOutcomes :
         /\ ~is_quit(text)
         /\ goal' = text
         /\ step' = step + 1
         /\ queries' = queries + 1
         /\ mem_buf' = Memory_add(mem_buf, ChatEntry(text))
         /\ oracle' = e.how
         /\ IF e.how = "raised"
            THEN /\ ChatExcept
                 /\ UNCHANGED <<data, intent, params>>
            ELSE /\ data' = e.value
                 /\ IF ~IsDict(e.value)
                    THEN /\ ChatExcept
                         /\ UNCHANGED <<intent, params>>
                    ELSE LET i == get(e.value, "intent", NoIntent)
                             p == chat_params(e.value)
                         IN /\ intent' = i /\ params' = p
                            /\ IF \/ Router_get(i) = KeyError
                                  \/ Executor_build_error(Router_get(i), p) # "none"
                               THEN ChatExcept
                               ELSE LET cmds == Executor_build(Router_get(i), p)
                                    IN \E replies \in [DOMAIN cmds -> Replies] :
                                       \E behs \in [DOMAIN cmds -> ShellBehaviours
                                                       \cup PluginBehaviours
                                                       \cup {Raised(<<>>, TypeErrorText),
                                                             Raised(<<>>, BoomText)}] :
                                         LET code == executor_code(cmds, confirm, replies,
                                                                   behs, 0)
                                         IN /\ \A k \in DOMAIN cmds :
                                                 /\ behs[k] \in executor_behaviours(cmds[k])
                                                 /\ (cmds[k].kind # "shell" \/ ~confirm)
                                                       => replies[k] = "y"
                                            /\ commands' = cmds
                                            /\ behaviours' = behs
                                            /\ asked' = executor_asked(cmds, confirm,
                                                                       replies, 1)
                                            /\ observation' = Observation(code, <<>>, <<>>)
                                            /\ call' = ChatRun(i, p, code)
                                            /\ log' = Append(log, ChatDoneLine(code))
    /\ UNCHANGED <<pc, outcome>>
    /\ ChatFrame

NextFront == NextGui \/ ChatBreak \/ ChatTurn

SpecFront == InitFront /\ [][NextFront]_vars

-----------------------------------------------------------------------------
(* The two builders on their own: every spec shape with every parameter value *)

TwoLineSpec ==
    [shell |-> << <<Lit(<<"l","s"," ">>), Var("path")>>,
                  <<Lit(<<"p","i","n","g"," ">>), Var("host"), Lit(<<" ","#">>)>> >>]

BuildSpecs ==
    {templates[i] : i \in DOMAIN templates}
    \cup { [shell |-> <<>>],
           TwoLineSpec,
           [shell |-> << <<Lit(<<"l","s">>)>> >>, plugin |-> "files.read_file"],
           EmptyDict }

HostDict == ("path" :> PathHome) @@ ("host" :> <<"h">>)

BuildParams ==
    {EmptyDict, NoParams, PathDict(PathHome), PathDict(NonStr), HostDict, EditDict(PathRel),
     ParamsList}

Built(e, items) == [error |-> e, items |-> IF e = "none" THEN items ELSE <<>>]

InitBuild ==
    /\ goal = <<>>
    /\ allowed_intents = {}
    /\ max_steps = 0
    /\ step = 0
    /\ queries = 0
    /\ pc = "build"
    /\ oracle = "none"
    /\ data = EmptyDict
    /\ prompt = EmptyDict
    /\ intent = NoIntent
    /\ params = EmptyDict
    /\ observation = Observation(0, StartText, <<>>)
    /\ seen_actions = <<>>
    /\ mem_state = EmptyDict
    /\ mem_buf = <<>>
    /\ outcome = "RUNNING"
    /\ commands = <<>>
    /\ results = <<>>
    /\ \E s \in BuildSpecs : \E q \in BuildParams :
         call = [op |-> "args", spec |-> s, params |-> q]
    /\ confirm = FALSE
    /\ behaviours = <<>>
    /\ asked = <<>>
    /\ log = <<>>
    /\ file = <<>>

\* _build_cmds(router, spec, params) and Executor.build(spec, params) on the same
\* arguments
Build ==
    /\ pc = "build"
    /\ call' = [op |-> "build", spec |-> call.spec, params |-> call.params,
                planner |-> Built(build_error(call.spec, call.params),
                                  build_cmds(call.spec, call.params)),
                executor |-> Built(Executor_build_error(call.spec, call.params),
                                   Executor_build(call.spec, call.params))]
    /\ commands' = IF build_raises(call.spec, call.params) THEN <<>>
                   ELSE build_cmds(call.spec, call.params)
    /\ pc' = "built"
    /\ UNCHANGED <<goal, allowed_intents, max_steps, step, queries, oracle, data, prompt,
                   intent, params, observation, seen_actions, mem_state, mem_buf,
                   outcome, results, confirm, behaviours, asked, log, file>>

NextBuild == Build

SpecBuild == InitBuild /\ [][NextBuild]_vars

\* the parameters are a mapping, or a false value that `params or {}` replaces
renderable(q) == q = NoParams \/ IsDict(q)

\* C23: for a spec with a shell template list the builder returns one rendered
\* string per template line, in template order; for a spec with a plugin
\* reference (and no shell list) one descriptor with the plugin id and the
\* parameters as they were given; for a spec with neither it raises and hands
\* nothing to execution; Executor.build and _build_cmds give the same result
C23_BuildersAgree ==
    call.op = "build" =>
        LET s == call.spec
            q == call.params
            r == call.planner
        IN /\ call.executor = call.planner
           /\ ("shell" \in DOMAIN s /\ renderable(q)) =>
                 /\ r.error = "none"
                 /\ Len(r.items) = Len(s.shell)
                 /\ \A i \in DOMAIN s.shell :
                       r.items[i] = [kind |-> "shell",
                                     cmd |-> render(s.shell[i], params_or_empty(q))]
           /\ ("shell" \notin DOMAIN s /\ "plugin" \in DOMAIN s) =>
                 /\ r.error = "none"
                 /\ r.items = <<[kind |-> "plugin", plugin |-> s.plugin, params |-> q]>>
           /\ ("shell" \notin DOMAIN s /\ "plugin" \notin DOMAIN s) =>
                 /\ r.error = "ValueError"
                 /\ r.items = <<>>
                 /\ commands = <<>>

\* the two template lines rendered with path "~/notes" and host "h", in order
C23_Witness ==
    /\ call.op = "build" /\ call.spec = TwoLineSpec /\ call.params = HostDict
    /\ call.executor.items =
         << [kind |-> "shell", cmd |-> <<"l","s"," ","~","/","n","o","t","e","s">>],
            [kind |-> "shell", cmd |-> <<"p","i","n","g"," ","h"," ","#">>] >>

-----------------------------------------------------------------------------
(* Executor.run on its own, one loop iteration per step: every item list up to
   MaxRunItems, with and without confirm mode *)

MaxRunItems == 3

RunItems == {ShellItem(<<"x">>), PluginItem("files.read_file", EmptyDict),
             PluginItem("nowhere.fn", EmptyDict), UnknownItem}

RunCall(code) == [op |-> "run", code |-> code]

InitRun ==
    /\ goal = <<>>
    /\ allowed_intents = {}
    /\ max_steps = 0
    /\ step = 1
    /\ queries = 0
    /\ pc = "run"
    /\ oracle = "none"
    /\ data = EmptyDict
    /\ prompt = EmptyDict
    /\ intent = NoIntent
    /\ params = EmptyDict
    /\ observation = Observation(0, StartText, <<>>)
    /\ seen_actions = <<>>
    /\ mem_state = EmptyDict
    /\ mem_buf = <<>>
    /\ outcome = "RUNNING"
    /\ \E n \in 0..MaxRunItems : commands \in [1..n -> RunItems]
    /\ results = <<>>
    /\ call = RunCall(0)
    /\ confirm \in BOOLEAN
    /\ behaviours = <<>>
    /\ asked = <<>>
    /\ log = <<>>
    /\ file = <<>>

RunFrame ==
    UNCHANGED <<goal, allowed_intents, max_steps, queries, oracle, data, prompt, intent,
                params, observation, seen_actions, mem_state, mem_buf, commands,
                confirm, log, file>>

\* lines 31-58: one iteration of `for cmd in commands`; `step` is the position
\* of cmd, `results` the positions of the items executed so far with their
\* codes, `call.code` the local `code`
RunItem ==
    /\ pc = "run"
    /\ step <= Len(commands)
    /\ \E reply \in Replies :
         \E b \in (IF commands[step].kind = "unknown" THEN {Exited(0, <<>>, <<>>)}
                   ELSE executor_behaviours(commands[step])) :
           /\ asked' = IF commands[step].kind = "shell" /\ confirm
                       THEN Append(asked, [item |-> step, reply |-> reply])
                       ELSE asked
           /\ IF item_runs(commands[step], confirm, reply)
              THEN /\ behaviours' = Append(behaviours, b)
                   /\ results' = Append(results,
                                        [item |-> step,
                                         code |-> item_code(commands[step], b)])
                   /\ call' = RunCall(item_code(commands[step], b))
              ELSE UNCHANGED <<behaviours, results, call>>
    /\ step' = step + 1
    /\ UNCHANGED <<pc, outcome>>
    /\ RunFrame

\* line 60: return code
RunReturn ==
    /\ pc = "run"
    /\ step > Len(commands)
    /\ pc' = "returned"
    /\ outcome' = IF call.code = 0 THEN "RETURNED_0" ELSE "RETURNED_NONZERO"
    /\ UNCHANGED <<step, results, call, behaviours, asked>>
    /\ RunFrame

NextRun == RunItem \/ RunReturn

SpecRun == InitRun /\ [][NextRun]_vars

\* the item at position k was offered for approval and declined
declined(k) == \E j \in DOMAIN asked : asked[j] = [item |-> k, reply |-> "n"]

executed(k) == \E j \in DOMAIN results : results[j].item = k

\* C24: with confirm mode on, declining a shell item skips it: it is not
\* executed, the running status code keeps the value it had before the item,
\* the loop goes on to the next item, and at the return every shell item has
\* been offered in list order and every item that was not declined (and has a
\* known shape) has been executed in list order
C24_DeclineSkips ==
    /\ [][(pc = "run" /\ Len(asked') > Len(asked)
           /\ asked'[Len(asked')].reply = "n") =>
              (/\ confirm
               /\ call' = call
               /\ results' = results /\ behaviours' = behaviours
               /\ pc' = "run" /\ step' = step + 1
               /\ outcome' = "RUNNING")]_vars
    /\ [](\A k \in DOMAIN commands : declined(k) => ~executed(k))
    /\ []((pc = "returned" /\ confirm) =>
            /\ \A k \in DOMAIN commands :
                  /\ commands[k].kind = "shell" =>
                        (\E j \in DOMAIN asked : asked[j].item = k)
                  /\ executed(k) <=>
                        (commands[k].kind # "unknown" /\ ~declined(k))
            /\ \A i, j \in DOMAIN asked : i < j => asked[i].item < asked[j].item
            /\ \A i, j \in DOMAIN results : i < j => results[i].item < results[j].item
            /\ call.code = executor_code(commands, confirm,
                                         [k \in DOMAIN commands |->
                                             IF declined(k) THEN "n" ELSE "y"],
                                         [k \in DOMAIN commands |->
                                             IF executed(k)
                                             THEN behaviours[CHOOSE j \in DOMAIN results :
                                                                 results[j].item = k]
                                             ELSE Exited(0, <<>>, <<>>)],
                                         0))

\* a failing item, then a declined shell item, then an executed one: the code
\* was still 1 after the declined item and the last item ran
C24_Witness ==
    /\ pc = "returned" /\ confirm /\ Len(commands) = 3
    /\ commands[2].kind = "shell" /\ declined(2)
    /\ results = <<[item |-> 1, code |-> 1], [item |-> 3, code |-> 0]>>
    /\ call.code = 0

-----------------------------------------------------------------------------
(* Several Planner.run calls in one process, one after the other *)

MaxRuns == 2

\* a run that went on with the list of the module, lines 93-94
module_seen_actions(earlier) == earlier

\* line 252: seen_actions = [] is a local of run
run_seen_actions(earlier) == <<>>

\* line 248: memory = Memory() is a local of run
run_memory(earlier_state, earlier_buf) == [state |-> EmptyDict, buf |-> <<>>]

RunsCall(n, earlier) == [op |-> "Planner.run", n |-> n, earlier |-> earlier]

\* the first run: a planner without confirm and with at most MaxStepsLive steps
InitRuns == InitLive

\* lines 245-253: run is called again when the earlier call has returned, on
\* the same Planner or on another one (another whitelist), with any goal
RunAgain ==
    /\ pc = "done"
    /\ (IF call = NoCall THEN 1 ELSE call.n) < MaxRuns
    /\ call' = RunsCall((IF call = NoCall THEN 1 ELSE call.n) + 1,
                        {seen_actions[k] : k \in DOMAIN seen_actions})
    /\ goal' \in Goals
    /\ allowed_intents' \in AllowedChoices
    /\ step' = 0
    /\ pc' = "ask"
    /\ outcome' = "RUNNING"
    /\ observation' = Observation(0, StartText, <<>>)
    /\ seen_actions' = run_seen_actions(seen_actions)
    /\ mem_state' = run_memory(mem_state, mem_buf).state
    /\ mem_buf' = run_memory(mem_state, mem_buf).buf
    /\ oracle' = "none"
    /\ data' = EmptyDict
    /\ prompt' = EmptyDict
    /\ intent' = NoIntent
    /\ params' = EmptyDict
    /\ commands' = <<>>
    /\ results' = <<>>
    /\ behaviours' = <<>>
    /\ log' = <<>>
    /\ UNCHANGED <<max_steps, queries, confirm, asked, file>>

NextRuns == Next \/ RunAgain

SpecRuns == InitRuns /\ [][NextRuns]_vars

\* C27: no guard or memory state survives between goals. Every Planner.run
\* call starts with empty seen_actions, history and symbolic context; the
\* prompt of its first step shows nothing of an earlier run; in its first step
\* the read-loop guard does not fire and a stop is refused or honoured by the
\* goal of this run alone
C27_NothingSurvives ==
    /\ [](step = 0 => (seen_actions = <<>> /\ mem_buf = <<>> /\ mem_state = EmptyDict))
    /\ []((pc = "decide" /\ step = 1) =>
            prompt = [allowed |-> allowed_intents, symbolic |-> EmptyDict,
                      history |-> <<>>, observation |-> StartText, goal |-> goal])
    /\ [][(pc = "decide" /\ step = 1 /\ IsDict(data)) =>
            /\ intent' = get(data, "intent", NoIntent)
            /\ (outcome' = "STOPPED_BY_MODEL")
                  <=> (get(data, "stop", FALSE) /\ ~needs_edit(goal)
                       /\ ~needs_create(goal))]_vars

\* the first run read a file; the second run answers read_file in its first
\* step and the read is dispatched, not replaced by the guard
C27_Witness ==
    /\ call # NoCall /\ call.n = 2 /\ "read_file" \in call.earlier
    /\ step = 1 /\ pc = "act" /\ intent = "read_file"
    /\ seen_actions = <<>> /\ mem_buf = <<>>

-----------------------------------------------------------------------------
(* One App with several goals in progress: on_send starts a handler thread per
   goal and every thread works on self.memory. A call of a Memory method is
   taken as one step. In this specification goal, step, pc, oracle, data,
   prompt, intent, params, observation, seen_actions, outcome and commands hold
   one value per handler thread. *)

MaxThreads == 2

\* the steps explored per handler (the handler itself allows GUI_MAX_STEPS)
MaxAppSteps == 2

Threads == 1..MaxThreads

\* the text typed for the goal of thread t, and the folder its answers name
AppText(t) == <<"g", IF t = 1 THEN "1" ELSE IF t = 2 THEN "2" ELSE "3">>
AppPath(t) == <<"/", IF t = 1 THEN "1" ELSE IF t = 2 THEN "2" ELSE "3">>

\* what engine.parse answers to the handler of thread t
AppResponses(t) ==
    { WellFormed("create_folder", PathDict(AppPath(t)), FALSE),
      WellFormed("list_dir", PathDict(AppPath(t)), FALSE),
      WellFormed(NoIntent, EmptyDict, TRUE) }

InitApp ==
    /\ goal = [t \in Threads |-> <<>>]
    /\ allowed_intents = {}
    /\ max_steps = GUI_MAX_STEPS
    /\ step = [t \in Threads |-> 0]
    /\ queries = 0
    /\ pc = [t \in Threads |-> "idle"]
    /\ oracle = [t \in Threads |-> "none"]
    /\ data = [t \in Threads |-> EmptyDict]
    /\ prompt = [t \in Threads |-> NoCall]
    /\ intent = [t \in Threads |-> NoIntent]
    /\ params = [t \in Threads |-> EmptyDict]
    /\ observation = [t \in Threads |-> Observation(0, <<>>, <<>>)]
    /\ seen_actions = [t \in Threads |-> EmptyDict]
    /\ mem_state = EmptyDict
    /\ mem_buf = <<>>
    /\ outcome = [t \in Threads |-> "RUNNING"]
    /\ commands = [t \in Threads |-> <<>>]
    /\ results = <<>>
    /\ call = NoCall
    /\ confirm = FALSE
    /\ behaviours = <<>>
    /\ asked = <<>>
    /\ log = <<>>
    /\ file = <<>>

AppFrame == UNCHANGED <<allowed_intents, max_steps, queries, results, call, confirm,
                        behaviours, asked, file>>

\* on_send, lines 49-55: the text is logged and a thread is started for it
on_send(t) ==
    /\ pc[t] = "idle"
    /\ goal' = [goal EXCEPT ![t] = AppText(t)]
    /\ log' = Append(log, [thread |-> t, line |-> "You"])
    /\ pc' = [pc EXCEPT ![t] = "gui_start"]
    /\ UNCHANGED <<step, oracle, data, prompt, intent, params, observation, seen_actions,
                   mem_state, mem_buf, outcome, commands>>
    /\ AppFrame

AppEnd(t, o, line) ==
    /\ pc' = [pc EXCEPT ![t] = "done"]
    /\ outcome' = [outcome EXCEPT ![t] = o]
    /\ log' = Append(log, [thread |-> t, line |-> line])

\* lines 64-73 in thread t
AppStart(t) ==
    /\ pc[t] = "gui_start"
    /\ mem_buf' = Memory_add(mem_buf, UserEntry(goal[t]))
    /\ pc' = [pc EXCEPT ![t] = "gui_loop"]
    /\ UNCHANGED <<goal, step, oracle, data, prompt, intent, params, observation,
                   seen_actions, mem_state, outcome, commands, log>>
    /\ AppFrame

\* lines 74-82 in thread t: the while test, the prompt, the engine call
AppAsk(t) ==
    /\ pc[t] = "gui_loop"
    /\ step[t] < GUI_MAX_STEPS
    /\ step[t] < MaxAppSteps
    /\ step' = [step EXCEPT ![t] = @ + 1]
    /\ prompt' = [prompt EXCEPT ![t] =
                    [symbolic |-> mem_state, history |-> mem_buf, text |-> goal[t],
                     followup |-> IF step[t] = 0 THEN NoCall
                                  ELSE [intent |-> intent[t], params |-> params[t],
                                        code |-> observation[t].code]]]
    /\ \/ \E d \in AppResponses(t) :
            /\ data' = [data EXCEPT ![t] = d]
            /\ oracle' = [oracle EXCEPT ![t] = "returned"]
            /\ pc' = [pc EXCEPT ![t] = "gui_decide"]
            /\ UNCHANGED <<outcome, log>>
       \/ /\ oracle' = [oracle EXCEPT ![t] = "raised"]      \* line 136
          /\ AppEnd(t, "STOPPED_BY_EXCEPTION", GuiErrorLine)
          /\ UNCHANGED data
    /\ UNCHANGED <<goal, intent, params, observation, seen_actions, mem_state, mem_buf,
                   commands>>
    /\ AppFrame

\* lines 91-116 in thread t: the answer recorded, stop, the hints, the
\* repeated-success guard, the registry lookup and the builder
AppDecide(t) ==
    /\ pc[t] = "gui_decide"
    /\ LET i == get(data[t], "intent", NoIntent)
           p == response_params(data[t])
       IN /\ intent' = [intent EXCEPT ![t] = i]
          /\ params' = [params EXCEPT ![t] = p]
          /\ mem_buf' = Memory_add(mem_buf, DataEntry(data[t]))
          /\ IF get(data[t], "stop", FALSE)
             THEN /\ AppEnd(t, "STOPPED_BY_MODEL", GuiReportLine)
                  /\ UNCHANGED <<mem_state, commands>>
             ELSE IF i = NoIntent
             THEN /\ AppEnd(t, "STOPPED_BY_MISSING_INTENT", GuiMissingIntentLine)
                  /\ UNCHANGED <<mem_state, commands>>
             ELSE IF gui_hints_raise(i, p) \/ ~IsDict(p)
             THEN /\ AppEnd(t, "STOPPED_BY_EXCEPTION", GuiErrorLine)
                  /\ UNCHANGED <<mem_state, commands>>
             ELSE /\ mem_state' = gui_update_hints(i, p, mem_state)
                  /\ IF /\ action_key(i, p) \in DOMAIN seen_actions[t]
                        /\ seen_actions[t][action_key(i, p)] = 0
                     THEN /\ AppEnd(t, "STOPPED_BY_GUARD", GuiGuardSuccessLine)
                          /\ UNCHANGED commands
                     ELSE IF \/ ~Router_has(i)
                             \/ Executor_build_error(Router_get(i), p) # "none"
                     THEN /\ AppEnd(t, "STOPPED_BY_EXCEPTION", GuiErrorLine)
                          /\ UNCHANGED commands
                     ELSE /\ commands' = [commands EXCEPT ![t] =
                                             Executor_build(Router_get(i), p)]
                          /\ pc' = [pc EXCEPT ![t] = "gui_run"]
                          /\ UNCHANGED <<outcome, log>>
    /\ UNCHANGED <<goal, step, oracle, data, prompt, observation, seen_actions>>
    /\ AppFrame

\* lines 121-130 in thread t: the items run, the code recorded, the
\* repeated-failure guard
AppRun(t) ==
    /\ pc[t] = "gui_run"
    /\ \E behs \in [DOMAIN commands[t] -> ShellBehaviours \cup PluginBehaviours
                                          \cup {Raised(<<>>, TypeErrorText),
                                                Raised(<<>>, BoomText)}] :
         LET code == executor_code(commands[t], confirm,
                                   [k \in DOMAIN commands[t] |-> "y"], behs, 0)
             seen1 == record_code(seen_actions[t],
                                  action_key(intent[t], params[t]), code)
         IN /\ \A k \in DOMAIN commands[t] :
                  behs[k] \in executor_behaviours(commands[t][k])
            /\ observation' = [observation EXCEPT ![t] = Observation(code, <<>>, <<>>)]
            /\ mem_buf' = Memory_add(mem_buf, RanEntry(intent[t], params[t], code))
            /\ seen_actions' = [seen_actions EXCEPT ![t] = seen1]
            /\ IF code # 0 /\ count_code(seen1, code) > 1
               THEN AppEnd(t, "STOPPED_BY_GUARD", GuiGuardFailureLine)
               ELSE /\ pc' = [pc EXCEPT ![t] = "gui_loop"]
                    /\ UNCHANGED <<outcome, log>>
    /\ UNCHANGED <<goal, step, oracle, data, prompt, intent, params, mem_state,
                   commands>>
    /\ AppFrame

NextApp ==
    \E t \in Threads : on_send(t) \/ AppStart(t) \/ AppAsk(t) \/ AppDecide(t) \/ AppRun(t)

SpecApp == InitApp /\ [][NextApp]_vars

\* the handler of thread t is between its start and its end
in_progress(t) == pc[t] \notin {"idle", "done"}

\* the entry was recorded by the handler of thread u
entry_of(e, u) ==
    \/ e.tag = "User" /\ e.text = AppText(u)
    \/ e.tag = "MIA" /\ "data" \in DOMAIN e
          /\ get(get(e.data, "params", EmptyDict), "path", <<>>) = AppPath(u)
    \/ e.tag = "MIA" /\ "params" \in DOMAIN e
          /\ get(e.params, "path", <<>>) = AppPath(u)

\* the prompt shows something the handler of thread u recorded
prompt_shows(pr, u) ==
    \/ \E k \in DOMAIN pr.history : entry_of(pr.history[k], u)
    \/ \E key \in DOMAIN pr.symbolic : pr.symbolic[key] = AppPath(u)

\* C28: sessions that run concurrently each have their own Memory: a prompt
\* composed for one goal while another goal is in progress shows no entry and
\* no context value recorded by the handler of the other goal
C28_OwnMemory ==
    [][\A t \in Threads : \A u \in Threads \ {t} :
          (prompt'[t] # prompt[t] /\ in_progress(u)) => ~prompt_shows(prompt'[t], u)]_vars

-----------------------------------------------------------------------------
(* Properties of App._handle *)

logged(line) == \E k \in DOMAIN log : log[k] = line

\* C14: a finished run of the loop is reported as having reached the step limit
\* exactly when the step limit is what ended it; a run ended by a model stop,
\* a guard, a missing intent or an invalid answer is never also reported as
\* having reached the limit
C14_OneTerminalCause ==
    pc = "done" =>
        (logged(GuiMaxStepsLine) <=> outcome = "STOPPED_BY_MAX_STEPS")

-----------------------------------------------------------------------------
(* The whitelist in the front ends *)

\* the entries of line 123, one for each execu.run the window handler made
GuiExecuted == SelectSeq(mem_buf, LAMBDA e : e.tag = "MIA" /\ "intent" \in DOMAIN e)

\* C31: every intent executed by the window handler's loop or by the chat loop
\* of the command line is in the safety whitelist, whatever the engine answers
C31_FrontEndsWhitelisted ==
    /\ \A k \in DOMAIN GuiExecuted : GuiExecuted[k].intent \in SAFE_INTENTS_DEFAULT
    /\ call.op = "chat_run" => call.intent \in SAFE_INTENTS_DEFAULT

====
